---- MODULE Spec2Model ----
(***************************************************************************)
(* Model of the smart-audit-assistant web dashboard back end: the          *)
(* POST /scan route (path validation, analyzer invocation, status store,   *)
(* report cache, history ledger), the query routes that read the same      *)
(* files, the dashboard page that starts and polls a scan, and the editor  *)
(* extension that publishes a scan's findings as diagnostics.              *)
(*                                                                         *)
(* Strings the code inspects character by character (paths) are sequences  *)
(* of atoms; every atom stands for a fixed run of characters ("/", ".",    *)
(* a letter, or the four characters ".sol").                               *)
(***************************************************************************)
EXTENDS Integers, Sequences, FiniteSets, TLC

VARIABLES
    pc,           \* pc[s]: where the POST /scan handler of scan id s stands
    req,          \* req[s]: the parsed request body of scan s
    exec,         \* exec[s]: how the subprocess scan s last waited for ended, until
                  \* the handler has dealt with it ("none" otherwise)
    report,       \* report[s]: the ScanReport object executeScanPipeline builds
    err,          \* err[s]: message of the error the handler caught (a sequence of parts)
    fin,          \* fin[s]: progress of the three writes started by Promise.all
    histLocal,    \* histLocal[s]: the list saveToHistory read from the ledger file
    response,     \* response[s]: what POST /scan returned, or None
    statusStore,  \* data/status/<id>.json: the status record of each scan id, None
                  \* when there is no file, Truncated while the file holds no document
    writing,      \* writing[s]: the record an fs.writeFile of the status file of s has
                  \* still to put into the file it has opened, or None
    cache,        \* data/cache/<id>.json: the cached report of each scan id, or None
    historyFile,  \* data/scan_history.json, see LedgerFile
    appendSeq,    \* appendSeq[s]: position of scan s among the ledger writes (0: none)
    artifact,     \* last_report.json, the analyzer's output artifact
    faults,       \* number of filesystem operations that have failed so far
    pathIn,       \* Path Resolver run: [raw, kind] the raw path and what fs.stat finds
    pathOut,      \* Path Resolver run: the result of validateContractPath, or None
    calcIn,       \* Risk Scorer / Analytics run: what the function is called with
    calcOut,      \* Risk Scorer / Analytics run: what it returned, or None
    isScanning,       \* dashboard: the isScanning state of the page
    currentScanId,    \* dashboard: the scan id the page polls, NoScanId for null
    scanStatus,       \* dashboard: the status object of the last poll, or None
    statusRequests,   \* dashboard: parity of the number of status requests sent
    posted,           \* dashboard: number of POST /scan requests the page has sent
    cliRun,           \* editor: cliRun[f] the spoon-audit process started for file f
    diagnosticCollection  \* editor: the diagnostics published for each file

scanVars == <<pc, req, exec, report, err, fin, histLocal, response>>
storeVars == <<statusStore, writing, cache, historyFile, appendSeq, artifact, faults>>
pathVars == <<pathIn, pathOut>>
calcVars == <<calcIn, calcOut>>
dashVars == <<isScanning, currentScanId, scanStatus, statusRequests, posted>>
editorVars == <<cliRun, diagnosticCollection>>
uiVars == <<dashVars, editorVars>>
vars == <<scanVars, storeVars, pathVars, calcVars, uiVars>>

\* A value that is not there (an unset field, a file that does not exist)
None == [absent |-> TRUE]

NoError == "none"

(***************************************************************************)
(* Bounds                                                                  *)
(***************************************************************************)
MaxPathLen == 5
\* POST /scan requests in one run; the scan id of request s is s (uuidv4 is fresh)
MaxScans == 2
\* filesystem operations that may fail in one run
MaxFaults == 1
\* Risk Scorer runs: findings of any kind in the static list, and findings of
\* the heaviest kind in the ai list (enough of them to pass the cap)
MaxVaried == 2
MaxBulk == 11

(***************************************************************************)
(* Strings as sequences of atoms                                           *)
(***************************************************************************)
PathAtoms == {"/", ".", "a", "x", ".sol"}

\* process.cwd(): the project directory "/a"
Cwd == <<"/", "a">>

\* String.prototype.includes
Includes(str, sub) ==
    \E i \in 0..(Len(str) - Len(sub)) : SubSeq(str, i + 1, i + Len(sub)) = sub

\* String.prototype.endsWith
EndsWith(str, suf) ==
    /\ Len(str) >= Len(suf)
    /\ SubSeq(str, Len(str) - Len(suf) + 1, Len(str)) = suf

SolExt == <<".sol">>

RECURSIVE SplitFrom(_, _, _, _)
\* str.split("/"): the segments between the separators
SplitFrom(str, i, cur, acc) ==
    IF i > Len(str) THEN Append(acc, cur)
    ELSE IF str[i] = "/" THEN SplitFrom(str, i + 1, <<>>, Append(acc, cur))
    ELSE SplitFrom(str, i + 1, Append(cur, str[i]), acc)

SplitPath(str) == SplitFrom(str, 1, <<>>, <<>>)

RECURSIVE NormalizeFrom(_, _, _)
\* path's normalizeString: empty and "." segments vanish, ".." pops one segment
\* (and stays at the root of an absolute path)
NormalizeFrom(segs, i, acc) ==
    IF i > Len(segs) THEN acc
    ELSE IF segs[i] = <<>> \/ segs[i] = <<".">> THEN NormalizeFrom(segs, i + 1, acc)
    ELSE IF segs[i] = <<".", ".">>
         THEN NormalizeFrom(segs, i + 1,
                            IF acc = <<>> THEN acc ELSE SubSeq(acc, 1, Len(acc) - 1))
    ELSE NormalizeFrom(segs, i + 1, Append(acc, segs[i]))

RECURSIVE JoinFrom(_, _)
JoinFrom(segs, i) ==
    IF i > Len(segs) THEN <<>> ELSE <<"/">> \o segs[i] \o JoinFrom(segs, i + 1)

JoinPath(segs) == IF segs = <<>> THEN <<"/">> ELSE JoinFrom(segs, 1)

\* path.resolve(contractPath): relative paths are taken from process.cwd(),
\* the result is absolute and normalized
PathResolve(raw) ==
    LET abs == IF raw # <<>> /\ raw[1] = "/" THEN raw ELSE Cwd \o <<"/">> \o raw
    IN  JoinPath(NormalizeFrom(SplitPath(abs), 1, <<>>))

\* What fs.stat / fs.readdir find at the resolved path
StatKinds == {"file", "dir_with_sol", "dir_without_sol", "other", "missing"}

Invalid(msg) == [isValid |-> FALSE, path |-> <<>>, error |-> msg]

\* validateContractPath
validateContractPath(raw, kind) ==
    LET resolvedPath == PathResolve(raw) IN
    IF ~Includes(resolvedPath, Cwd)
        THEN Invalid("Invalid file path - outside project directory")
    ELSE IF kind = "missing" THEN Invalid("File or directory not found")
    ELSE IF kind = "file" /\ ~EndsWith(resolvedPath, SolExt)
        THEN Invalid("Only .sol files are supported")
    ELSE IF kind = "dir_without_sol" THEN Invalid("No .sol files found in directory")
    ELSE IF kind = "other" THEN Invalid("Path must be a file or directory")
    ELSE [isValid |-> TRUE, path |-> resolvedPath, error |-> NoError]

(***************************************************************************)
(* Findings, reports, risk score                                           *)
(***************************************************************************)
Scans == 1..MaxScans

\* confidence is optional on a finding; tenths, so 8 is 0.8
NoConfidence == -1

Finding(sev, conf, loc) == [severity |-> sev, confidence |-> conf, location |-> loc]

\* severity is whatever string the analyzer's tools put into the document: the
\* tools run for the odd scans report "high", those run for the even scans
\* report solhint's "warning"
ToolSeverity(s) == IF s % 2 = 1 THEN "high" ELSE "warning"

\* The documents the analyzer writes for the target of scan s
StaticDoc(s) == [state |-> "doc", static |-> <<Finding(ToolSeverity(s), NoConfidence, s)>>, ai |-> <<>>]
AIDoc(s) == [state |-> "doc", static |-> <<>>, ai |-> <<Finding("medium", 9, s)>>]
MalformedDoc == [state |-> "malformed", static |-> <<>>, ai |-> <<>>]
NoArtifact == [state |-> "absent", static |-> <<>>, ai |-> <<>>]

\* Mutant of Weight: the weights of low and medium are exchanged
Weight_Swapped(sev) ==
    CASE sev = "critical" -> 10
      [] sev = "high" -> 7
      [] sev = "medium" -> 2
      [] sev = "low" -> 4
      [] OTHER -> 1

\* weights[finding.severity] || 1
Weight(sev) ==
    CASE sev = "critical" -> 10
      [] sev = "high" -> 7
      [] sev = "medium" -> 4
      [] sev = "low" -> 2
      [] sev = "info" -> 1
      [] OTHER -> 1

DefaultConfidence == 8
ScoreCap == 100

\* finding.confidence || 0.8, in tenths: an absent confidence and 0 are both falsy
ConfidenceOf(f) ==
    IF f.confidence = NoConfidence \/ f.confidence = 0 THEN DefaultConfidence
    ELSE f.confidence

RECURSIVE ScoreTenths(_, _)
ScoreTenths(findings, i) ==
    IF i > Len(findings) THEN 0
    ELSE Weight(findings[i].severity) * ConfidenceOf(findings[i]) + ScoreTenths(findings, i + 1)

Min(a, b) == IF a < b THEN a ELSE b

\* Mutant of calculateRiskScore: the rounded sum is returned without the cap
calculateRiskScore_NoCap(r) ==
    (ScoreTenths(r.static \o r.ai, 1) + 5) \div 10

\* calculateRiskScore: Math.min(Math.round(score), 100)
calculateRiskScore(r) ==
    Min((ScoreTenths(r.static \o r.ai, 1) + 5) \div 10, ScoreCap)

\* the report object executeScanPipeline starts from
\* timestamp is Math.floor(Date.now() / 1000), the scans being started in
\* consecutive seconds; pipeline is the default of a body that names none
NewReport(s, path, includeAI) ==
    [id |-> s, path |-> path, timestamp |-> s, duration |-> 0, pipeline |-> "thorough",
     static |-> <<>>, ai |-> <<>>,
     metadata |-> [ai_enabled |-> includeAI, total_findings |-> 0, risk_score |-> 0]]

\* Date.now() - startTime, counted in analyzer invocations the handler waited for
Elapsed(r) == IF r.metadata.ai_enabled THEN 2 ELSE 1

\* JSON.parse(JSON.stringify(finding)): a property that is undefined is left out
\* of the text and is absent again after parsing
FindingToJson(f) ==
    [severity |-> f.severity,
     confidence |-> IF f.confidence = NoConfidence THEN NoConfidence ELSE f.confidence,
     location |-> f.location]

\* JSON.parse(JSON.stringify(report, null, 2)): what a reader of the written
\* text gets back
ToJson(r) ==
    [id |-> r.id, path |-> r.path, timestamp |-> r.timestamp, duration |-> r.duration,
     pipeline |-> r.pipeline,
     static |-> [i \in 1..Len(r.static) |-> FindingToJson(r.static[i])],
     ai |-> [i \in 1..Len(r.ai) |-> FindingToJson(r.ai[i])],
     metadata |-> [ai_enabled |-> r.metadata.ai_enabled,
                   total_findings |-> r.metadata.total_findings,
                   risk_score |-> r.metadata.risk_score]]

(***************************************************************************)
(* The three stores                                                        *)
(***************************************************************************)
StatusRecord(scanId, status, message) ==
    [scanId |-> scanId, status |-> status, message |-> message]

\* A file that fs.writeFile has opened (flag 'w' empties it) and not yet filled:
\* what it holds is no JSON document
Truncated == [truncated |-> TRUE]

\* How a writeFile call ends: the document is written; mkdir or the open fails
\* and the file is as before; the open succeeds and the write fails
WriteOutcomes == {"ok", "open_failed", "write_failed"}

\* updateScanStatus up to the point where writeFile has opened the file: the
\* file is emptied and the record is still to be written (StatusFlush). An
\* error of mkdir or writeFile is logged and swallowed.
updateScanStatus(scanId, status, message, outcome) ==
    IF outcome = "ok"
    THEN /\ statusStore' = [statusStore EXCEPT ![scanId] = Truncated]
         /\ writing' = [writing EXCEPT ![scanId] = StatusRecord(scanId, status, message)]
         /\ faults' = faults
    ELSE /\ faults < MaxFaults
         /\ faults' = faults + 1
         /\ statusStore' = [statusStore EXCEPT ![scanId] =
                              IF outcome = "write_failed" THEN Truncated ELSE @]
         /\ UNCHANGED writing

\* the handler is not waiting for a status write
StatusSettled(s) == writing[s] = None

\* updateScanStatus line 366: writeFile puts the record into the file and the
\* await in the handler returns
StatusFlush(s) ==
    /\ writing[s] # None
    /\ statusStore' = [statusStore EXCEPT ![s] = writing[s]]
    /\ writing' = [writing EXCEPT ![s] = None]
    /\ UNCHANGED <<scanVars, cache, historyFile, appendSeq, artifact, faults, pathVars, calcVars, uiVars>>

\* GET /status/[id]: the record, or the synthetic not_found record when the
\* file cannot be read or parsed
GetStatus(id) ==
    IF statusStore[id] = None \/ statusStore[id] = Truncated
    THEN StatusRecord(id, "not_found", <<"Scan not found">>)
    ELSE statusStore[id]

MaxHistory == 100

\* The oldest entry of a ledger that is one below the cap: the scan whose entry
\* the second append of a run pushes out
OldestId == -(MaxHistory - 1)

\* The ids with a file name in data/cache: the scans of this run and the oldest
\* of the earlier scans
CacheIds == Scans \cup {OldestId}

\* The report an earlier scan left in the cache
OldReport(k) ==
    [id |-> -k, path |-> Cwd \o <<"/", "x", ".sol">>, timestamp |-> -k, duration |-> 1,
     pipeline |-> "thorough",
     static |-> <<Finding("high", NoConfidence, -k)>>, ai |-> <<>>,
     metadata |-> [ai_enabled |-> FALSE, total_findings |-> 1, risk_score |-> 6]]

\* GET /history/[id]: the cached report, or None for the 404 answer
GetReportById(id) == cache[id]

\* GET /report: the document in last_report.json, or None for the null answer
\* when the file cannot be read or parsed
GetLatestReport ==
    IF artifact.state = "doc" THEN [static |-> artifact.static, ai |-> artifact.ai]
    ELSE None

HistoryEntry_StaticOnly(r) ==
    [id |-> r.id, path |-> r.path, timestamp |-> r.timestamp, duration |-> r.duration,
     findings_count |-> Len(r.static),
     risk_score |-> r.metadata.risk_score, status |-> "completed",
     pipeline |-> r.pipeline, ai_enabled |-> r.metadata.ai_enabled]

\* the entry saveToHistory builds from a report
HistoryEntry(r) ==
    [id |-> r.id, path |-> r.path, timestamp |-> r.timestamp, duration |-> r.duration,
     findings_count |-> r.metadata.total_findings,
     risk_score |-> r.metadata.risk_score, status |-> "completed",
     pipeline |-> r.pipeline, ai_enabled |-> r.metadata.ai_enabled]

\* Mutant of PrependAndTruncate: push instead of unshift
PrependAndTruncate_Push(entry, history) ==
    LET grown == history \o <<entry>>
    IN  IF Len(grown) > MaxHistory THEN SubSeq(grown, 1, MaxHistory) ELSE grown

\* history.unshift(entry); if (history.length > 100) history = history.slice(0, 100)
PrependAndTruncate(entry, history) ==
    LET grown == <<entry>> \o history
    IN  IF Len(grown) > MaxHistory THEN SubSeq(grown, 1, MaxHistory) ELSE grown

\* Entries left by scans that finished before this run: ids -1 (newest), -2, ...
OldEntry(k) ==
    [id |-> -k, path |-> Cwd \o <<"/", "x", ".sol">>, timestamp |-> -k, duration |-> 1,
     findings_count |-> 1, risk_score |-> 6, status |-> "completed",
     pipeline |-> "thorough", ai_enabled |-> FALSE]

PriorLedger(n) == [k \in 1..n |-> OldEntry(k)]

\* The ledger file holds a JSON list. The list is always the entries written in
\* this run followed by the newest `prior` entries of the earlier scans, and the
\* state keeps it in that form: [exists, entries, prior].
LedgerList(f) == f.entries \o PriorLedger(f.prior)

LedgerFile(list) ==
    LET fresh == {i \in 1..Len(list) : list[i].id > 0}
    IN  [exists |-> TRUE,
         entries |-> SubSeq(list, 1, Cardinality(fresh)),
         prior |-> Len(list) - Cardinality(fresh)]

NoLedger == [exists |-> FALSE, entries |-> <<>>, prior |-> 0]

\* GET /history: the ledger, [] when the file cannot be read
ListHistory == IF historyFile.exists THEN LedgerList(historyFile) ELSE <<>>

TerminalStatuses == {"completed", "failed"}

(***************************************************************************)
(* POST /scan, one action per stretch of the handler between two awaits    *)
(***************************************************************************)
\* The contract files on disk: what fs.stat finds at a resolved path
FsStat(p) ==
    CASE p = Cwd -> "dir_with_sol"
      [] p = Cwd \o <<"/", "x", ".sol">> -> "file"
      [] p = Cwd \o <<"/", "a">> -> "file"
      [] p = Cwd \o <<"/", "x">> -> "dir_without_sol"
      [] p = <<"/", "x", ".sol">> -> "file"
      [] OTHER -> "missing"

\* The contractPath values of the request bodies: empty, a contract below the
\* root, a contract outside it, a file of another type, a directory without
\* contracts, a path that does not exist
RequestPaths ==
    {<<>>, <<"x", ".sol">>, <<"/", "x", ".sol">>, <<"a">>, <<"x">>, <<".sol">>}

ValidRequestPath == <<"x", ".sol">>

\* includeAI defaults to true; the bodies that set it to false name the contract
ScanRequests ==
    [contractPath : RequestPaths, includeAI : {TRUE}]
        \cup [contractPath : {ValidRequestPath}, includeAI : {FALSE}]

Response(status, code, error, body) ==
    [status |-> status, code |-> code, error |-> error, body |-> body]

FinStart == [hist |-> "read", cache |-> "write", stat |-> "write"]
FinIdle == [hist |-> "idle", cache |-> "idle", stat |-> "idle"]

\* Mutant of PostStart: the running record is written before the body is checked
PostStart_StatusFirst(s) ==
    /\ pc[s] = "idle"
    /\ \E body \in ScanRequests :
         LET v == validateContractPath(body.contractPath,
                                       FsStat(PathResolve(body.contractPath)))
         IN  /\ req' = [req EXCEPT ![s] = body]
             /\ updateScanStatus(s, "running", <<"Initializing scan pipeline...">>, "ok")
             /\ IF body.contractPath = <<>> \/ ~v.isValid
                THEN /\ response' = [response EXCEPT ![s] =
                                       Response(400, "INVALID_PATH", <<v.error>>, None)]
                     /\ pc' = [pc EXCEPT ![s] = "done"]
                ELSE /\ pc' = [pc EXCEPT ![s] = "init"]
                     /\ UNCHANGED response
    /\ UNCHANGED <<exec, report, err, fin, histLocal, cache, historyFile, appendSeq,
                   artifact, pathVars, calcVars, uiVars>>

\* POST, lines 51-77: parse the body, check contractPath, validate the path
PostStart(s) ==
    /\ pc[s] = "idle"
    /\ \/ \* request.json() throws: the catch block runs
          /\ pc' = [pc EXCEPT ![s] = "catch"]
          /\ err' = [err EXCEPT ![s] = <<"Unexpected token in JSON">>]
          /\ UNCHANGED <<req, response>>
       \/ \E body \in ScanRequests :
            LET v == validateContractPath(body.contractPath,
                                          FsStat(PathResolve(body.contractPath)))
            IN  /\ req' = [req EXCEPT ![s] = body]
                /\ IF body.contractPath = <<>>
                   THEN /\ response' = [response EXCEPT ![s] = Response(400, "MISSING_PATH", <<"Contract path is required">>, None)]
                        /\ pc' = [pc EXCEPT ![s] = "done"]
                   ELSE IF ~v.isValid
                   THEN /\ response' = [response EXCEPT ![s] = Response(400, "INVALID_PATH", <<v.error>>, None)]
                        /\ pc' = [pc EXCEPT ![s] = "done"]
                   ELSE /\ pc' = [pc EXCEPT ![s] = "init"]
                        /\ UNCHANGED response
                /\ UNCHANGED err
    /\ UNCHANGED <<exec, report, fin, histLocal, storeVars, pathVars, calcVars, uiVars>>

\* POST line 79, then executeScanPipeline lines 172-187
InitStatus(s) ==
    /\ pc[s] = "init"
    /\ StatusSettled(s)
    /\ \E outcome \in WriteOutcomes :
         updateScanStatus(s, "running", <<"Initializing scan pipeline...">>, outcome)
    /\ report' = [report EXCEPT ![s] =
                    NewReport(s, PathResolve(req[s].contractPath), req[s].includeAI)]
    /\ pc' = [pc EXCEPT ![s] = "static_status"]
    /\ UNCHANGED <<req, exec, err, fin, histLocal, response, cache, historyFile, appendSeq,
                   artifact, pathVars, calcVars, uiVars>>

\* executeScanPipeline line 190
StaticStatus(s) ==
    /\ pc[s] = "static_status"
    /\ StatusSettled(s)
    /\ \E outcome \in WriteOutcomes :
         updateScanStatus(s, "running", <<"Running static analysis...">>, outcome)
    /\ pc' = [pc EXCEPT ![s] = "static_exec"]
    /\ UNCHANGED <<req, exec, report, err, fin, histLocal, response, cache, historyFile,
                   appendSeq, artifact, pathVars, calcVars, uiVars>>

\* How an analyzer subprocess ends: exit 0 with its document written, exit 0
\* with a document that is no JSON, exit 0 with nothing written, killed at the
\* timeout, exit with another code
ExitZero == {"written", "garbled", "unwritten"}
ExecOutcomes == ExitZero \cup {"timeout", "nonzero"}

ExecError(outcome) ==
    IF outcome = "timeout" THEN "Command failed: killed at the timeout"
    ELSE "Command failed: exit code not zero"

\* Mutant of StaticFailure: the underlying error message is dropped
StaticFailure_NoReason(reason) ==
    <<"Pipeline execution failed: ", "Static analysis failed: ", "">>

\* runStaticAnalysis catch (line 262) inside executeScanPipeline catch (line 224)
StaticFailure(reason) ==
    <<"Pipeline execution failed: ", "Static analysis failed: ", reason>>

\* runStaticAnalysis lines 243-251: the subprocess runs and ends
StaticExec(s) ==
    /\ pc[s] = "static_exec"
    /\ StatusSettled(s)
    /\ \E outcome \in ExecOutcomes :
         /\ exec' = [exec EXCEPT ![s] = outcome]
         /\ IF outcome \in {"timeout", "nonzero"}
            THEN /\ err' = [err EXCEPT ![s] = StaticFailure(ExecError(outcome))]
                 /\ pc' = [pc EXCEPT ![s] = "catch"]
                 /\ UNCHANGED artifact
            ELSE /\ artifact' = CASE outcome = "written" -> StaticDoc(s)
                                  [] outcome = "garbled" -> MalformedDoc
                                  [] OTHER -> artifact
                 /\ pc' = [pc EXCEPT ![s] = "static_read"]
                 /\ UNCHANGED err
    /\ UNCHANGED <<req, report, fin, histLocal, response, statusStore, writing, cache,
                   historyFile, appendSeq, faults, pathVars, calcVars, uiVars>>

\* Mutant of StaticRead: the AI pass is started whatever includeAI says
StaticRead_AlwaysAI(s) ==
    /\ pc[s] = "static_read"
    /\ StatusSettled(s)
    /\ IF artifact.state # "doc"
       THEN /\ err' = [err EXCEPT ![s] = StaticFailure("Unexpected token in JSON")]
            /\ pc' = [pc EXCEPT ![s] = "catch"]
            /\ UNCHANGED report
       ELSE /\ report' = [report EXCEPT ![s].static = artifact.static]
            /\ pc' = [pc EXCEPT ![s] = "ai_status"]
            /\ UNCHANGED err
    /\ exec' = [exec EXCEPT ![s] = "none"]
    /\ UNCHANGED <<req, fin, histLocal, response, storeVars, pathVars, calcVars, uiVars>>

\* runStaticAnalysis lines 254-258: read and parse last_report.json;
\* executeScanPipeline lines 199-202
StaticRead(s) ==
    /\ pc[s] = "static_read"
    /\ StatusSettled(s)
    /\ IF artifact.state = "absent"
       THEN /\ err' = [err EXCEPT ![s] = StaticFailure("ENOENT: no such file")]
            /\ pc' = [pc EXCEPT ![s] = "catch"]
            /\ UNCHANGED report
       ELSE IF artifact.state = "malformed"
       THEN /\ err' = [err EXCEPT ![s] = StaticFailure("Unexpected token in JSON")]
            /\ pc' = [pc EXCEPT ![s] = "catch"]
            /\ UNCHANGED report
       ELSE /\ report' = [report EXCEPT ![s].static = artifact.static]
            /\ pc' = [pc EXCEPT ![s] =
                        IF req[s].includeAI THEN "ai_status" ELSE "proc_status"]
            /\ UNCHANGED err
    /\ exec' = [exec EXCEPT ![s] = "none"]
    /\ UNCHANGED <<req, fin, histLocal, response, storeVars, pathVars, calcVars, uiVars>>

\* executeScanPipeline line 203
AIStatus(s) ==
    /\ pc[s] = "ai_status"
    /\ StatusSettled(s)
    /\ \E outcome \in WriteOutcomes :
         updateScanStatus(s, "running", <<"Running AI analysis...">>, outcome)
    /\ pc' = [pc EXCEPT ![s] = "ai_exec"]
    /\ UNCHANGED <<req, exec, report, err, fin, histLocal, response, cache, historyFile,
                   appendSeq, artifact, pathVars, calcVars, uiVars>>

\* runAIAnalysis lines 280-288, and its catch (line 299) when the subprocess fails
AIExec(s) ==
    /\ pc[s] = "ai_exec"
    /\ StatusSettled(s)
    /\ \E outcome \in ExecOutcomes :
         /\ exec' = [exec EXCEPT ![s] = IF outcome \in ExitZero THEN outcome ELSE "none"]
         /\ IF outcome \in {"timeout", "nonzero"}
            THEN /\ report' = [report EXCEPT ![s].ai = <<>>]
                 /\ pc' = [pc EXCEPT ![s] = "proc_status"]
                 /\ UNCHANGED artifact
            ELSE /\ artifact' = CASE outcome = "written" -> AIDoc(s)
                                  [] outcome = "garbled" -> MalformedDoc
                                  [] OTHER -> artifact
                 /\ pc' = [pc EXCEPT ![s] = "ai_read"]
                 /\ UNCHANGED report
    /\ UNCHANGED <<req, err, fin, histLocal, response, statusStore, writing, cache,
                   historyFile, appendSeq, faults, pathVars, calcVars, uiVars>>

\* runAIAnalysis lines 291-299: read and parse last_report.json, [] on any error
AIRead(s) ==
    /\ pc[s] = "ai_read"
    /\ StatusSettled(s)
    /\ report' = [report EXCEPT ![s].ai =
                    IF artifact.state = "doc" THEN artifact.ai ELSE <<>>]
    /\ pc' = [pc EXCEPT ![s] = "proc_status"]
    /\ exec' = [exec EXCEPT ![s] = "none"]
    /\ UNCHANGED <<req, err, fin, histLocal, response, storeVars, pathVars, calcVars, uiVars>>

\* Mutant of ProcessStatus: total_findings is left as the report was created
ProcessStatus_NoCount(s) ==
    /\ pc[s] = "proc_status"
    /\ StatusSettled(s)
    /\ \E outcome \in WriteOutcomes :
         updateScanStatus(s, "running", <<"Processing results...">>, outcome)
    /\ report' = [report EXCEPT ![s] =
                    [report[s] EXCEPT !.duration = Elapsed(report[s]),
                                      !.metadata.risk_score = calculateRiskScore(report[s])]]
    /\ fin' = [fin EXCEPT ![s] = FinStart]
    /\ pc' = [pc EXCEPT ![s] = "finalize"]
    /\ UNCHANGED <<req, exec, err, histLocal, response, cache, historyFile, appendSeq,
                   artifact, pathVars, calcVars, uiVars>>

\* executeScanPipeline lines 216-221, POST lines 92-94, and the synchronous
\* start of the three calls handed to Promise.all (lines 97-101)
ProcessStatus(s) ==
    /\ pc[s] = "proc_status"
    /\ StatusSettled(s)
    /\ \E outcome \in WriteOutcomes :
         updateScanStatus(s, "running", <<"Processing results...">>, outcome)
    /\ LET counted == [report[s] EXCEPT
                         !.metadata.total_findings = Len(report[s].static) + Len(report[s].ai)]
       IN  report' = [report EXCEPT ![s] =
                        [counted EXCEPT !.duration = Elapsed(counted),
                                        !.metadata.risk_score = calculateRiskScore(counted)]]
    /\ fin' = [fin EXCEPT ![s] = FinStart]
    /\ pc' = [pc EXCEPT ![s] = "finalize"]
    /\ UNCHANGED <<req, exec, err, histLocal, response, cache, historyFile, appendSeq,
                   artifact, pathVars, calcVars, uiVars>>

\* position of the next ledger write among all ledger writes
NextAppendSeq ==
    1 + Cardinality({t \in Scans : appendSeq[t] > 0})

\* saveToHistory lines 305-316: read the ledger file; a file that is missing or
\* cannot be read or parsed leaves history = []
HistoryRead(s) ==
    /\ pc[s] = "finalize"
    /\ fin[s].hist = "read"
    /\ StatusSettled(s) \/ fin[s].stat = "done"
    /\ \E ok \in BOOLEAN :
         IF ok
         THEN /\ histLocal' = [histLocal EXCEPT ![s] = LedgerFile(ListHistory)]
              /\ faults' = faults
         ELSE /\ faults < MaxFaults
              /\ faults' = faults + 1
              /\ histLocal' = [histLocal EXCEPT ![s] = LedgerFile(<<>>)]
    /\ fin' = [fin EXCEPT ![s].hist = "write"]
    /\ UNCHANGED <<pc, req, exec, report, err, response, statusStore, writing, cache,
                   historyFile, appendSeq, artifact, pathVars, calcVars, uiVars>>

\* Mutant of HistoryWrite: the cached reports of the entries cut from the list
\* are deleted with them
HistoryWrite_Cascade(s) ==
    /\ pc[s] = "finalize"
    /\ fin[s].hist = "write"
    /\ StatusSettled(s) \/ fin[s].stat = "done"
    /\ historyFile' = LedgerFile(PrependAndTruncate(HistoryEntry(report[s]),
                                                    LedgerList(histLocal[s])))
    /\ LET full == Len(histLocal[s].entries) + histLocal[s].prior >= MaxHistory
           cut == IF full /\ histLocal[s].prior > 0 THEN {-histLocal[s].prior} ELSE {}
       IN  cache' = [id \in CacheIds |-> IF id \in cut THEN None ELSE cache[id]]
    /\ appendSeq' = [appendSeq EXCEPT ![s] = NextAppendSeq]
    /\ fin' = [fin EXCEPT ![s].hist = "done"]
    /\ histLocal' = [histLocal EXCEPT ![s] = LedgerFile(<<>>)]
    /\ UNCHANGED <<pc, req, exec, report, err, response, statusStore, writing,
                   artifact, faults, pathVars, calcVars, uiVars>>

\* saveToHistory lines 318-341: prepend, truncate, write the file; a failed
\* write is logged and swallowed
HistoryWrite(s) ==
    /\ pc[s] = "finalize"
    /\ fin[s].hist = "write"
    /\ StatusSettled(s) \/ fin[s].stat = "done"
    /\ \E ok \in BOOLEAN :
         IF ok
         THEN /\ historyFile' =
                   LedgerFile(PrependAndTruncate(HistoryEntry(report[s]),
                                                 LedgerList(histLocal[s])))
              /\ appendSeq' = [appendSeq EXCEPT ![s] = NextAppendSeq]
              /\ faults' = faults
         ELSE /\ faults < MaxFaults
              /\ faults' = faults + 1
              /\ UNCHANGED <<historyFile, appendSeq>>
    /\ fin' = [fin EXCEPT ![s].hist = "done"]
    /\ histLocal' = [histLocal EXCEPT ![s] = LedgerFile(<<>>)]
    /\ UNCHANGED <<pc, req, exec, report, err, response, statusStore, writing,
                   cache, artifact, pathVars, calcVars, uiVars>>

\* Mutant of CacheWrite: a failed write is not caught, Promise.all rejects and
\* the catch block of POST runs
CacheWrite_Throws(s) ==
    /\ pc[s] = "finalize"
    /\ fin[s].cache = "write"
    /\ StatusSettled(s)
    /\ \E ok \in BOOLEAN :
         IF ok
         THEN /\ cache' = [cache EXCEPT ![s] = ToJson(report[s])]
              /\ fin' = [fin EXCEPT ![s].cache = "done"]
              /\ UNCHANGED <<faults, pc, err>>
         ELSE /\ faults < MaxFaults
              /\ faults' = faults + 1
              /\ err' = [err EXCEPT ![s] = <<"ENOSPC: no space left on device">>]
              /\ pc' = [pc EXCEPT ![s] = "catch"]
              /\ UNCHANGED <<cache, fin>>
    /\ UNCHANGED <<req, exec, report, histLocal, response, statusStore, writing,
                   historyFile, appendSeq, artifact, pathVars, calcVars, uiVars>>

\* Mutant of CacheWrite: the report is cached as executeScanPipeline returned
\* it, before duration and risk_score are set
CacheWrite_BeforeMetrics(s) ==
    /\ pc[s] = "finalize"
    /\ fin[s].cache = "write"
    /\ StatusSettled(s) \/ fin[s].stat = "done"
    /\ cache' = [cache EXCEPT ![s] =
                   ToJson([report[s] EXCEPT !.duration = 0, !.metadata.risk_score = 0])]
    /\ fin' = [fin EXCEPT ![s].cache = "done"]
    /\ UNCHANGED <<pc, req, exec, report, err, histLocal, response, statusStore, writing,
                   historyFile, appendSeq, artifact, faults, pathVars, calcVars, uiVars>>

\* cacheReport lines 344-352
CacheWrite(s) ==
    /\ pc[s] = "finalize"
    /\ fin[s].cache = "write"
    /\ StatusSettled(s) \/ fin[s].stat = "done"
    /\ \E ok \in BOOLEAN :
         IF ok
         THEN /\ cache' = [cache EXCEPT ![s] = ToJson(report[s])]
              /\ faults' = faults
         ELSE /\ faults < MaxFaults
              /\ faults' = faults + 1
              /\ UNCHANGED cache
    /\ fin' = [fin EXCEPT ![s].cache = "done"]
    /\ UNCHANGED <<pc, req, exec, report, err, histLocal, response, statusStore, writing,
                   historyFile, appendSeq, artifact, pathVars, calcVars, uiVars>>

\* Mutant of CompletedStatus: the completed record is never written
CompletedStatus_Skipped(s) ==
    /\ pc[s] = "finalize"
    /\ fin[s].stat = "write"
    /\ StatusSettled(s)
    /\ fin' = [fin EXCEPT ![s].stat = "done"]
    /\ UNCHANGED <<pc, req, exec, report, err, histLocal, response, storeVars, pathVars, calcVars, uiVars>>

\* POST line 100: updateScanStatus(scanId, 'completed', ...) inside Promise.all
CompletedStatus(s) ==
    /\ pc[s] = "finalize"
    /\ fin[s].stat = "write"
    /\ StatusSettled(s)
    /\ \E outcome \in WriteOutcomes :
         updateScanStatus(s, "completed", <<"Scan completed successfully">>, outcome)
    /\ fin' = [fin EXCEPT ![s].stat = "done"]
    /\ UNCHANGED <<pc, req, exec, report, err, histLocal, response, cache, historyFile,
                   appendSeq, artifact, pathVars, calcVars, uiVars>>

\* Mutant of Respond: building the response throws, so the catch block runs
Respond_Throws(s) ==
    /\ pc[s] = "finalize"
    /\ fin[s].hist = "done" /\ fin[s].cache = "done" /\ fin[s].stat = "done"
    /\ StatusSettled(s)
    /\ err' = [err EXCEPT ![s] = <<"Converting circular structure to JSON">>]
    /\ pc' = [pc EXCEPT ![s] = "catch"]
    /\ UNCHANGED <<req, exec, report, fin, histLocal, response, storeVars, pathVars, calcVars, uiVars>>

\* POST lines 97-103: Promise.all has settled, the report is returned
Respond(s) ==
    /\ pc[s] = "finalize"
    /\ fin[s].hist = "done" /\ fin[s].cache = "done" /\ fin[s].stat = "done"
    /\ StatusSettled(s)
    /\ response' = [response EXCEPT ![s] = Response(200, "OK", <<>>, ToJson(report[s]))]
    /\ pc' = [pc EXCEPT ![s] = "done"]
    /\ UNCHANGED <<req, exec, report, err, fin, histLocal, storeVars, pathVars, calcVars, uiVars>>

\* Mutant of CatchStatus: the catch block forgets the status record
CatchStatus_NoWrite(s) ==
    /\ pc[s] = "catch"
    /\ StatusSettled(s)
    /\ pc' = [pc EXCEPT ![s] = "respond_error"]
    /\ UNCHANGED <<req, exec, report, err, fin, histLocal, response, storeVars, pathVars, calcVars, uiVars>>

\* POST lines 105-108: the catch block writes the failed record
CatchStatus(s) ==
    /\ pc[s] = "catch"
    /\ StatusSettled(s)
    /\ \E outcome \in WriteOutcomes : updateScanStatus(s, "failed", err[s], outcome)
    /\ pc' = [pc EXCEPT ![s] = "respond_error"]
    /\ UNCHANGED <<req, exec, report, err, fin, histLocal, response, cache, historyFile,
                   appendSeq, artifact, pathVars, calcVars, uiVars>>

\* POST lines 110-114: the error response
RespondError(s) ==
    /\ pc[s] = "respond_error"
    /\ StatusSettled(s)
    /\ response' = [response EXCEPT ![s] = Response(500, "SCAN_FAILED", err[s], None)]
    /\ pc' = [pc EXCEPT ![s] = "done"]
    /\ UNCHANGED <<req, exec, report, err, fin, histLocal, storeVars, pathVars, calcVars, uiVars>>

(***************************************************************************)
(* Specifications                                                          *)
(***************************************************************************)
NoScanId == 0

\* the source files open in the editor; the analyzer's findings for file f are
\* those of scan f
Files == Scans

NoRun == [state |-> "none", includeAI |-> FALSE]

\* page.tsx lines 133-135: the initial state of the page
DashIdle ==
    /\ isScanning = FALSE
    /\ currentScanId = NoScanId
    /\ scanStatus = None
    /\ statusRequests = 0
    /\ posted = 0

\* part_001 activate: an empty diagnostic collection, no scan running
EditorIdle ==
    /\ cliRun = [f \in Files |-> NoRun]
    /\ diagnosticCollection = [f \in Files |-> <<>>]

UiIdle == DashIdle /\ EditorIdle

\* No request has arrived yet
ScansIdle ==
    /\ pc = [s \in Scans |-> "idle"]
    /\ req = [s \in Scans |-> None]
    /\ exec = [s \in Scans |-> "none"]
    /\ report = [s \in Scans |-> None]
    /\ err = [s \in Scans |-> <<>>]
    /\ fin = [s \in Scans |-> FinIdle]
    /\ histLocal = [s \in Scans |-> LedgerFile(<<>>)]
    /\ response = [s \in Scans |-> None]
    /\ statusStore = [s \in Scans |-> None]
    /\ writing = [s \in Scans |-> None]
    /\ appendSeq = [s \in Scans |-> 0]
    /\ artifact = NoArtifact
    /\ faults = 0

\* A fresh server: no ledger file yet
Init ==
    /\ UiIdle
    /\ ScansIdle
    /\ cache = [id \in CacheIds |-> None]
    /\ historyFile = NoLedger
    /\ pathIn = None
    /\ pathOut = None
    /\ calcIn = None
    /\ calcOut = None

Next ==
    \E s \in Scans :
        \/ PostStart(s)
        \/ InitStatus(s)
        \/ StaticStatus(s)
        \/ StaticExec(s)
        \/ StaticRead(s)
        \/ AIStatus(s)
        \/ AIExec(s)
        \/ AIRead(s)
        \/ ProcessStatus(s)
        \/ HistoryRead(s)
        \/ HistoryWrite(s)
        \/ CacheWrite(s)
        \/ CompletedStatus(s)
        \/ Respond(s)
        \/ CatchStatus(s)
        \/ RespondError(s)
        \/ StatusFlush(s)

Spec == Init /\ [][Next]_vars

\* A server whose ledger holds the entries of earlier scans, one below the cap
InitLedger ==
    /\ UiIdle
    /\ ScansIdle
    /\ cache = [id \in CacheIds |-> IF id = OldestId THEN OldReport(-id) ELSE None]
    /\ historyFile = LedgerFile(PriorLedger(MaxHistory - 1))
    /\ pathIn = None
    /\ pathOut = None
    /\ calcIn = None
    /\ calcOut = None

SpecLedger == InitLedger /\ [][Next]_vars

(***************************************************************************)
(* Path Resolver runs: one raw path, one filesystem answer                 *)
(***************************************************************************)
RawPaths == UNION {[1..n -> PathAtoms] : n \in 1..MaxPathLen}

InitPath ==
    /\ UiIdle
    /\ ScansIdle
    /\ cache = [id \in CacheIds |-> None]
    /\ historyFile = NoLedger
    /\ pathIn \in [raw : RawPaths, kind : StatKinds]
    /\ pathOut = None
    /\ calcIn = None
    /\ calcOut = None

ResolveStep ==
    /\ pathOut = None
    /\ pathOut' = validateContractPath(pathIn.raw, pathIn.kind)
    /\ UNCHANGED <<pathIn, scanVars, storeVars, calcVars, uiVars>>

NextPath == ResolveStep

SpecPath == InitPath /\ [][NextPath]_vars

\* The trusted root itself or a path below it
IsWithinRoot(p) ==
    p = Cwd \/ (Len(p) > Len(Cwd) /\ SubSeq(p, 1, Len(Cwd) + 1) = Cwd \o <<"/">>)

(***************************************************************************)
(* Risk Scorer runs: one report, scored, then rescored after one of its    *)
(* findings got a higher severity                                          *)
(***************************************************************************)
\* the five severities of the weight table, lowest first
SeverityOrder == <<"info", "low", "medium", "high", "critical">>
CanonicalSeverities == {SeverityOrder[i] : i \in 1..Len(SeverityOrder)}
SeverityRank(sev) == CHOOSE i \in 1..Len(SeverityOrder) : SeverityOrder[i] = sev

\* the findings a document may hold: any severity string, confidence absent or
\* 0, 0.5, 1 (in tenths)
ScoredFindings ==
    {Finding(sev, conf, 0) : sev \in CanonicalSeverities \cup {"warning"},
                             conf \in {NoConfidence, 0, 5, 10}}

VariedLists == UNION {[1..n -> ScoredFindings] : n \in 0..MaxVaried}
BulkList(k) == [i \in 1..k |-> Finding("critical", 10, 0)]

InitScore ==
    /\ UiIdle
    /\ ScansIdle
    /\ cache = [id \in CacheIds |-> None]
    /\ historyFile = NoLedger
    /\ pathIn = None
    /\ pathOut = None
    /\ calcIn \in {[static |-> v, ai |-> BulkList(k)] : v \in VariedLists, k \in 0..MaxBulk}
    /\ calcOut = None

\* POST line 94: report.metadata.risk_score = calculateRiskScore(report)
ScoreStep ==
    /\ calcOut = None
    /\ calcOut' = [score |-> calculateRiskScore(calcIn), prev |-> calculateRiskScore(calcIn),
                   raised |-> FALSE]
    /\ UNCHANGED <<calcIn, scanVars, storeVars, pathVars, uiVars>>

\* the same report with the severity of one finding raised, scored again
RaiseStep ==
    /\ calcOut # None
    /\ \E i \in 1..Len(calcIn.static) :
         /\ calcIn.static[i].severity \in CanonicalSeverities
         /\ \E sev \in CanonicalSeverities :
              /\ SeverityRank(sev) > SeverityRank(calcIn.static[i].severity)
              /\ LET raised == [calcIn EXCEPT !.static[i].severity = sev]
                 IN  /\ calcIn' = raised
                     /\ calcOut' = [score |-> calculateRiskScore(raised),
                                    prev |-> calcOut.score, raised |-> TRUE]
    /\ UNCHANGED <<scanVars, storeVars, pathVars, uiVars>>

NextScore == ScoreStep \/ RaiseStep

SpecScore == InitScore /\ [][NextScore]_vars

(***************************************************************************)
(* GET /analytics. JavaScript objects used as maps are sequences of         *)
(* records in insertion order, the order Object.values and Object.entries   *)
(* give for keys that are not integers.                                     *)
(***************************************************************************)
TrendCap == 30
DetailWindow == 50
TopCap == 10
SecondsPerDay == 86400

\* new Date(timestamp * 1000).toISOString().split('T')[0]: the UTC calendar
\* date <<year, month, day>> of a timestamp in the first three months of 1970
DateOf(timestamp) ==
    LET day == timestamp \div SecondsPerDay
    IN  IF day < 31 THEN <<1970, 1, day + 1>>
        ELSE IF day < 59 THEN <<1970, 2, day - 30>>
        ELSE <<1970, 3, day - 58>>

\* a.date.localeCompare(b.date) on two dates written YYYY-MM-DD
DateCompare(a, b) ==
    IF a[1] # b[1] THEN (IF a[1] < b[1] THEN -1 ELSE 1)
    ELSE IF a[2] # b[2] THEN (IF a[2] < b[2] THEN -1 ELSE 1)
    ELSE IF a[3] # b[3] THEN (IF a[3] < b[3] THEN -1 ELSE 1)
    ELSE 0

\* Loops over a list (forEach, reduce, for-of, the insertions of a sort) go
\* through its elements from left to right; a range is split in halves, the
\* left half being finished before the right half starts, so that the
\* evaluation stays shallow on a long list.
Done(value) == value = value

RECURSIVE SumRange(_, _, _)
SumRange(numbers, lo, hi) ==
    IF lo > hi THEN 0
    ELSE IF lo = hi THEN numbers[lo]
    ELSE SumRange(numbers, lo, (lo + hi) \div 2) + SumRange(numbers, (lo + hi) \div 2 + 1, hi)

SumSeq(numbers) == SumRange(numbers, 1, Len(numbers))

\* Math.round(sum / count) for a sum that is not negative
RoundedMean(sum, count) == (2 * sum + count) \div (2 * count)

\* the place of the bucket of a date in trends, 0 when there is none
TrendIndex(trends, date) ==
    IF \E i \in 1..Len(trends) : trends[i].date = date
    THEN CHOOSE i \in 1..Len(trends) : trends[i].date = date
    ELSE 0

\* calculateScanTrends lines 79-92: the body of history.forEach
AddToTrends(trends, scan) ==
    LET date == DateOf(scan.timestamp)
        at == TrendIndex(trends, date)
        base == IF at = 0
                THEN Append(trends, [date |-> date, scans |-> 0, findings |-> 0,
                                     riskScores |-> <<>>])
                ELSE trends
        pos == IF at = 0 THEN Len(base) ELSE at
    IN  [base EXCEPT ![pos] =
            [date |-> date, scans |-> @.scans + 1,
             findings |-> @.findings + scan.findings_count,
             riskScores |-> Append(@.riskScores, scan.risk_score)]]

RECURSIVE TrendsFold(_, _, _, _)
\* calculateScanTrends lines 78-93: history.forEach over history[lo..hi]
TrendsFold(history, lo, hi, trends) ==
    IF lo > hi THEN trends
    ELSE IF lo = hi THEN AddToTrends(trends, history[lo])
    ELSE LET left == TrendsFold(history, lo, (lo + hi) \div 2, trends)
         IN  IF Done(left) THEN TrendsFold(history, (lo + hi) \div 2 + 1, hi, left) ELSE left

\* calculateScanTrends lines 96-103: the map over Object.values(trends)
TrendOf(trend) ==
    [date |-> trend.date, scans |-> trend.scans, findings |-> trend.findings,
     avgRiskScore |-> IF Len(trend.riskScores) > 0
                      THEN RoundedMean(SumSeq(trend.riskScores), Len(trend.riskScores))
                      ELSE 0]

\* Array.prototype.sort is stable: an element goes before the first element
\* of the sorted part that the comparator puts after it
InsertByDate(sorted, x) ==
    LET later == {i \in 1..Len(sorted) : DateCompare(x.date, sorted[i].date) < 0}
        at == IF later = {} THEN Len(sorted) + 1
              ELSE CHOOSE i \in later : \A j \in later : i <= j
    IN  SubSeq(sorted, 1, at - 1) \o <<x>> \o SubSeq(sorted, at, Len(sorted))

RECURSIVE InsertAllByDate(_, _, _, _)
InsertAllByDate(list, lo, hi, sorted) ==
    IF lo > hi THEN sorted
    ELSE IF lo = hi THEN InsertByDate(sorted, list[lo])
    ELSE LET left == InsertAllByDate(list, lo, (lo + hi) \div 2, sorted)
         IN  IF Done(left) THEN InsertAllByDate(list, (lo + hi) \div 2 + 1, hi, left) ELSE left

\* .sort((a, b) => a.date.localeCompare(b.date))
SortByDate(list) == InsertAllByDate(list, 1, Len(list), <<>>)

LastN_Head(list, n) == IF Len(list) > n THEN SubSeq(list, 1, n) ELSE list

\* .slice(-n)
LastN(list, n) == IF Len(list) > n THEN SubSeq(list, Len(list) - n + 1, Len(list)) ELSE list

\* .slice(0, n)
FirstN(list, n) == IF Len(list) > n THEN SubSeq(list, 1, n) ELSE list

\* calculateScanTrends
calculateScanTrends(history) ==
    LET trends == TrendsFold(history, 1, Len(history), <<>>)
        mapped == [i \in 1..Len(trends) |-> TrendOf(trends[i])]
    IN  LastN(SortByDate(mapped), TrendCap)

\* Titles are sequences of characters over a small alphabet
LowerAlnum == {"a", "b", "7", "8"}

ToLower(c) == IF c = "A" THEN "a" ELSE IF c = "B" THEN "b" ELSE c
ToUpper(c) == IF c = "a" THEN "A" ELSE IF c = "b" THEN "B" ELSE c

\* String.prototype.trim on a string whose only white space is the space
Trim(str) ==
    LET kept == {i \in 1..Len(str) : str[i] # " "}
    IN  IF kept = {} THEN <<>>
        ELSE SubSeq(str, CHOOSE i \in kept : \A j \in kept : i <= j,
                         CHOOSE i \in kept : \A j \in kept : j <= i)

\* finding.title.toLowerCase().replace(/[^a-z0-9]/g, ' ').trim()
ClusterKey(title) ==
    Trim([i \in 1..Len(title) |->
            IF ToLower(title[i]) \in LowerAlnum THEN ToLower(title[i]) ELSE " "])

\* title.split(' ').map(word => word.charAt(0).toUpperCase() + word.slice(1)).join(' ')
TitleCase(key) ==
    [i \in 1..Len(key) |-> IF i = 1 \/ key[i - 1] = " " THEN ToUpper(key[i]) ELSE key[i]]

\* the place of a key in a map kept as a sequence of records, 0 when absent
KeyIndex(map, key) ==
    IF \E i \in 1..Len(map) : map[i].key = key
    THEN CHOOSE i \in 1..Len(map) : map[i].key = key
    ELSE 0

\* counts[key] = (counts[key] || 0) + 1
CountKey(counts, key) ==
    LET at == KeyIndex(counts, key)
    IN  IF at = 0 THEN Append(counts, [key |-> key, count |-> 1])
        ELSE [counts EXCEPT ![at].count = @ + 1]

\* lines 127-131: the cluster of a key gets one more finding
AddToCluster(vulnerabilities, key, severity) ==
    LET at == KeyIndex(vulnerabilities, key)
        base == IF at = 0
                THEN Append(vulnerabilities, [key |-> key, count |-> 0, severities |-> <<>>])
                ELSE vulnerabilities
        pos == IF at = 0 THEN Len(base) ELSE at
    IN  [base EXCEPT ![pos].count = @ + 1, ![pos].severities = Append(@, severity)]

\* an element goes before the first element with a smaller count
InsertByCount(sorted, x) ==
    LET smaller == {i \in 1..Len(sorted) : sorted[i].count < x.count}
        at == IF smaller = {} THEN Len(sorted) + 1
              ELSE CHOOSE i \in smaller : \A j \in smaller : i <= j
    IN  SubSeq(sorted, 1, at - 1) \o <<x>> \o SubSeq(sorted, at, Len(sorted))

RECURSIVE InsertAllByCount(_, _, _, _)
InsertAllByCount(list, lo, hi, sorted) ==
    IF lo > hi THEN sorted
    ELSE IF lo = hi THEN InsertByCount(sorted, list[lo])
    ELSE LET left == InsertAllByCount(list, lo, (lo + hi) \div 2, sorted)
         IN  IF Done(left) THEN InsertAllByCount(list, (lo + hi) \div 2 + 1, hi, left) ELSE left

SortByCount_Unsorted(list) == list

\* .sort((a, b) => b.count - a.count)
SortByCount(list) == InsertAllByCount(list, 1, Len(list), <<>>)

RECURSIVE CountSeverities(_, _, _, _)
\* getMostCommonSeverity lines 156-158: severities.forEach over severities[lo..hi]
CountSeverities(severities, lo, hi, counts) ==
    IF lo > hi THEN counts
    ELSE IF lo = hi THEN CountKey(counts, severities[lo])
    ELSE LET left == CountSeverities(severities, lo, (lo + hi) \div 2, counts)
         IN  IF Done(left) THEN CountSeverities(severities, (lo + hi) \div 2 + 1, hi, left) ELSE left

getMostCommonSeverity_LastSeen(severities) ==
    LET counts == CountSeverities(severities, 1, Len(severities), <<>>)
        best == {i \in 1..Len(counts) : \A j \in 1..Len(counts) : counts[j].count <= counts[i].count}
    IN  IF counts = <<>> THEN "medium"
        ELSE counts[CHOOSE i \in best : \A j \in best : j <= i].key

\* getMostCommonSeverity
getMostCommonSeverity(severities) ==
    LET sorted == SortByCount(CountSeverities(severities, 1, Len(severities), <<>>))
    IN  IF sorted = <<>> \/ sorted[1].key = "" THEN "medium" ELSE sorted[1].key

\* A finding of a cached report as the analytics read it; a finding may have
\* no title
AFinding(severity, title) == [severity |-> severity, title |-> title]
Untitled(severity) == [severity |-> severity]
HasTitle(finding) == "title" \in DOMAIN finding
Missing == [missing |-> TRUE]
Unreadable == [unreadable |-> TRUE]

NoTallies == [severityDistribution |-> <<>>, vulnerabilities |-> <<>>]

RECURSIVE TallyFindings(_, _, _)
\* lines 121-132: allFindings.forEach; a finding without a title throws at
\* line 126, after its severity is counted, and ends the loop
TallyFindings(allFindings, i, tallies) ==
    IF i > Len(allFindings) THEN tallies
    ELSE LET finding == allFindings[i]
             counted == CountKey(tallies.severityDistribution, finding.severity)
         IN  IF ~HasTitle(finding)
             THEN [tallies EXCEPT !.severityDistribution = counted]
             ELSE TallyFindings(allFindings, i + 1,
                      [tallies EXCEPT
                          !.severityDistribution = counted,
                          !.vulnerabilities =
                              AddToCluster(@, ClusterKey(finding.title), finding.severity)])

\* lines 114-136: one pass of the loop; the catch only continues
TallyScan(doc, tallies) ==
    IF doc \in {Missing, Unreadable} THEN tallies
    ELSE TallyFindings(doc.static \o doc.ai, 1, tallies)

RECURSIVE TallyScans(_, _, _, _)
\* line 113: the for loop over docs[lo..hi]
TallyScans(docs, lo, hi, tallies) ==
    IF lo > hi THEN tallies
    ELSE IF lo = hi THEN TallyScan(docs[lo], tallies)
    ELSE LET left == TallyScans(docs, lo, (lo + hi) \div 2, tallies)
         IN  IF Done(left) THEN TallyScans(docs, (lo + hi) \div 2 + 1, hi, left) ELSE left

\* lines 139-144: the map over Object.entries(vulnerabilities)
ClusterOf(entry) ==
    [title |-> TitleCase(entry.key), count |-> entry.count,
     avgSeverity |-> getMostCommonSeverity(entry.severities)]

\* calculateDetailedAnalytics; docs[i] is what reading the cache file of
\* history[i] gives
calculateDetailedAnalytics(docs) ==
    LET window == FirstN(docs, DetailWindow)
        tallies == TallyScans(window, 1, Len(window), NoTallies)
        mapped == [i \in 1..Len(tallies.vulnerabilities) |->
                      ClusterOf(tallies.vulnerabilities[i])]
    IN  [severityDistribution |-> tallies.severityDistribution,
         topVulnerabilities |-> FirstN(SortByCount(mapped), TopCap)]

ZeroSnapshot ==
    [error |-> FALSE, totalScans |-> 0, totalFindings |-> 0, averageRiskScore |-> 0,
     severityDistribution |-> <<>>, toolUsage |-> <<>>, scanTrends |-> <<>>,
     topVulnerabilities |-> <<>>]

AnalyticsGet_AbsentFails(ledger, history, docs) ==
    IF ledger = "absent" THEN [error |-> TRUE]
    ELSE IF ledger # "list" THEN ZeroSnapshot
    ELSE [ZeroSnapshot EXCEPT !.totalScans = Len(history)]

\* GET /analytics: ledger is what reading scan_history.json gives ("absent",
\* "unparseable", or "list" with the parsed history), docs[i] what reading
\* the cache file of history[i].id gives
AnalyticsGet(ledger, history, docs) ==
    IF ledger # "list" THEN ZeroSnapshot
    ELSE LET detailed == calculateDetailedAnalytics(docs)
         IN  [error |-> FALSE,
              totalScans |-> Len(history),
              totalFindings |-> SumSeq([i \in 1..Len(history) |-> history[i].findings_count]),
              averageRiskScore |->
                  IF Len(history) > 0
                  THEN RoundedMean(SumSeq([i \in 1..Len(history) |-> history[i].risk_score]),
                                   Len(history))
                  ELSE 0,
              severityDistribution |-> detailed.severityDistribution,
              toolUsage |-> <<>>,
              scanTrends |-> calculateScanTrends(history),
              topVulnerabilities |-> detailed.topVulnerabilities]

(***************************************************************************)
(* The analytics on their own: a ledger of a few varied entries at the head *)
(* followed by a run of entries of consecutive days, newest first, and the  *)
(* cache files of those entries.                                            *)
(***************************************************************************)
MaxHead == 2
MaxLedger == 51

BulkSizes == {0, 1} \cup ((TrendCap - 1)..(TrendCap + 1)) \cup ((MaxLedger - 2)..MaxLedger)

\* the j-th entry of the run was started at midnight of day MaxLedger + 1 - j
BulkEntry(j) ==
    [id |-> -j, timestamp |-> (MaxLedger + 1 - j) * SecondsPerDay,
     findings_count |-> 1, risk_score |-> 6]

BulkTitle(j) ==
    <<<<"a", "B", "7", "8">>[(j % 4) + 1], "_", <<"A", "b", "7">>[(j % 3) + 1]>>

\* the cache file of the j-th entry of the run
BulkDoc(j) ==
    IF j % 5 = 0 THEN Missing
    ELSE IF j % 5 = 4 THEN Unreadable
    ELSE [static |-> <<AFinding(SeverityOrder[(j % 5) + 1], BulkTitle(j))>>,
          ai |-> IF j % 2 = 0 THEN <<AFinding("medium", BulkTitle(j + 1))>> ELSE <<>>]

\* a head entry was started one second before the midnight that ends its day
HeadKinds ==
    [day : (MaxLedger - 1)..(MaxLedger + 1), findings_count : {0, 2}, risk_score : {0, 5}]
HeadEntry(kind, i) ==
    [id |-> i, timestamp |-> kind.day * SecondsPerDay + (SecondsPerDay - 1),
     findings_count |-> kind.findings_count, risk_score |-> kind.risk_score]

HeadDocs ==
    {Missing, Unreadable,
     [static |-> <<AFinding("critical", <<"A", "-", "b">>)>>, ai |-> <<>>],
     [static |-> <<AFinding("high", <<"a", " ", "B">>)>>,
      ai |-> <<AFinding("medium", <<"7", "_", "a">>)>>],
     [static |-> <<AFinding("low", <<"b", "8">>), Untitled("high"),
                   AFinding("info", <<"b", "8">>)>>,
      ai |-> <<>>]}

SeqsUpTo(S, n) == UNION {[1..m -> S] : m \in 0..n}

AnalyticsInputs ==
    {[ledger |-> l, head |-> <<>>, docs |-> <<>>, bulk |-> 0] : l \in {"absent", "unparseable"}}
    \cup {[ledger |-> "list", head |-> h, docs |-> [i \in 1..Len(h) |-> Missing], bulk |-> k] :
            h \in SeqsUpTo(HeadKinds, MaxHead), k \in BulkSizes}
    \cup {[ledger |-> "list", head |-> [i \in 1..Len(d) |->
                                        [day |-> MaxLedger + 1, findings_count |-> 1,
                                         risk_score |-> 6]], docs |-> d, bulk |-> k] :
            d \in SeqsUpTo(HeadDocs, MaxHead), k \in BulkSizes}

\* the parsed scan_history.json of an input
HistoryOf(in) ==
    [i \in 1..(Len(in.head) + in.bulk) |->
        IF i <= Len(in.head) THEN HeadEntry(in.head[i], i) ELSE BulkEntry(i - Len(in.head))]

\* fs.readFile of data/cache/<id>.json
ReadCache(in, id) == IF id > 0 THEN in.docs[id] ELSE BulkDoc(-id)

DocsOf(in) == LET history == HistoryOf(in)
              IN  [i \in 1..Len(history) |-> ReadCache(in, history[i].id)]

InitAnalytics ==
    /\ UiIdle
    /\ ScansIdle
    /\ cache = [id \in CacheIds |-> None]
    /\ historyFile = NoLedger
    /\ pathIn = None
    /\ pathOut = None
    /\ calcIn \in AnalyticsInputs
    /\ calcOut = None

\* one GET /analytics request
AnalyticsStep ==
    /\ calcOut = None
    /\ calcOut' = AnalyticsGet(calcIn.ledger, HistoryOf(calcIn), DocsOf(calcIn))
    /\ UNCHANGED <<calcIn, scanVars, storeVars, pathVars, uiVars>>

NextAnalytics == AnalyticsStep

SpecAnalytics == InitAnalytics /\ [][NextAnalytics]_vars

(***************************************************************************)
(* The clustering on its own: the findings of one report carry two titles. *)
(***************************************************************************)
MaxTitleLen == 4
KeyAlphabet == {"a", "A", "-", " "}

InitKey ==
    /\ UiIdle
    /\ ScansIdle
    /\ cache = [id \in CacheIds |-> None]
    /\ historyFile = NoLedger
    /\ pathIn = None
    /\ pathOut = None
    /\ calcIn \in {[first |-> t, second |-> u] :
                       t \in SeqsUpTo(KeyAlphabet, MaxTitleLen - 1), u \in SeqsUpTo(KeyAlphabet, MaxTitleLen)}
    /\ calcOut = None

\* lines 121-132 over the two findings
ClusterStep ==
    /\ calcOut = None
    /\ calcOut' = TallyFindings(<<AFinding("high", calcIn.first),
                                  AFinding("high", calcIn.second)>>, 1, NoTallies)
    /\ UNCHANGED <<calcIn, scanVars, storeVars, pathVars, uiVars>>

NextKey == ClusterStep

SpecKey == InitKey /\ [][NextKey]_vars

(***************************************************************************)
(* The query routes on their own, over stores as earlier POST /scan         *)
(* requests left them.                                                      *)
(***************************************************************************)
\* the report POST /scan caches for a scan with a static and an ai finding
FinishedReport(s) ==
    LET found == [NewReport(s, PathResolve(ValidRequestPath), TRUE) EXCEPT
                     !.static = StaticDoc(s).static, !.ai = AIDoc(s).ai]
    IN  ToJson([found EXCEPT !.metadata.total_findings = Len(found.static) + Len(found.ai),
                             !.duration = Elapsed(found),
                             !.metadata.risk_score = calculateRiskScore(found)])

\* what a status file may hold: nothing, an emptied file, a record
StoredStatuses(s) ==
    {None, Truncated,
     StatusRecord(s, "running", <<"Initializing scan pipeline...">>),
     StatusRecord(s, "completed", <<"Scan completed successfully">>),
     StatusRecord(s, "failed", StaticFailure("Command failed: killed at the timeout"))}

StoredLedgers ==
    {NoLedger, LedgerFile(<<>>)}
        \cup {LedgerFile(<<HistoryEntry(FinishedReport(s))>>) : s \in Scans}
        \cup UNION {{LedgerFile(<<HistoryEntry(FinishedReport(s)),
                                   HistoryEntry(FinishedReport(t))>>) : t \in Scans \ {s}} :
                     s \in Scans}

InitQuery ==
    /\ UiIdle
    /\ pc = [s \in Scans |-> "idle"]
    /\ req = [s \in Scans |-> None]
    /\ exec = [s \in Scans |-> "none"]
    /\ report = [s \in Scans |-> None]
    /\ err = [s \in Scans |-> <<>>]
    /\ fin = [s \in Scans |-> FinIdle]
    /\ histLocal = [s \in Scans |-> LedgerFile(<<>>)]
    /\ response = [s \in Scans |-> None]
    /\ writing = [s \in Scans |-> None]
    /\ appendSeq = [s \in Scans |-> 0]
    /\ faults = 0
    /\ \E stored \in SUBSET Scans :
          cache = [id \in CacheIds |-> IF id \in stored THEN FinishedReport(id) ELSE None]
    /\ \E status \in [Scans -> UNION {StoredStatuses(s) : s \in Scans}] :
          /\ \A s \in Scans : status[s] \in StoredStatuses(s)
          /\ statusStore = status
    /\ historyFile \in StoredLedgers
    /\ artifact \in {NoArtifact, MalformedDoc} \cup {StaticDoc(s) : s \in Scans}
    /\ pathIn = None
    /\ pathOut = None
    /\ calcIn = None
    /\ calcOut = None

Answer(op, id, body) == [op |-> op, id |-> id, body |-> body]

StatusQuery_Creates(id) ==
    /\ calcOut = None
    /\ calcOut' = Answer("status", id, GetStatus(id))
    /\ statusStore' = [statusStore EXCEPT ![id] = GetStatus(id)]
    /\ UNCHANGED <<calcIn, scanVars, writing, cache, historyFile, appendSeq, artifact, faults,
                   pathVars, uiVars>>

\* GET /status/[id]
StatusQuery(id) ==
    /\ calcOut = None
    /\ calcOut' = Answer("status", id, GetStatus(id))
    /\ UNCHANGED <<calcIn, scanVars, storeVars, pathVars, uiVars>>

\* GET /history/[id]
ReportQuery(id) ==
    /\ calcOut = None
    /\ calcOut' = Answer("report", id, GetReportById(id))
    /\ UNCHANGED <<calcIn, scanVars, storeVars, pathVars, uiVars>>

\* GET /report
LatestQuery ==
    /\ calcOut = None
    /\ calcOut' = Answer("latest", 0, GetLatestReport)
    /\ UNCHANGED <<calcIn, scanVars, storeVars, pathVars, uiVars>>

\* GET /history
HistoryQuery ==
    /\ calcOut = None
    /\ calcOut' = Answer("history", 0, ListHistory)
    /\ UNCHANGED <<calcIn, scanVars, storeVars, pathVars, uiVars>>

\* a cache file as calculateDetailedAnalytics reads it; the findings of the
\* pipeline carry no title here and are read with a one-letter title
CachedDoc(id) ==
    IF cache[id] = None THEN Missing
    ELSE [static |-> [i \in 1..Len(cache[id].static) |->
                         AFinding(cache[id].static[i].severity, <<"a">>)],
          ai |-> [i \in 1..Len(cache[id].ai) |-> AFinding(cache[id].ai[i].severity, <<"a">>)]]

\* GET /analytics
AnalyticsQuery ==
    /\ calcOut = None
    /\ calcOut' = Answer("analytics", 0,
                         AnalyticsGet(IF historyFile.exists THEN "list" ELSE "absent",
                                      ListHistory,
                                      [i \in 1..Len(ListHistory) |-> CachedDoc(ListHistory[i].id)]))
    /\ UNCHANGED <<calcIn, scanVars, storeVars, pathVars, uiVars>>

NextQuery ==
    \/ \E id \in Scans : StatusQuery(id) \/ ReportQuery(id)
    \/ LatestQuery
    \/ HistoryQuery
    \/ AnalyticsQuery

SpecQuery == InitQuery /\ [][NextQuery]_vars

(***************************************************************************)
(* The dashboard page: runScan and the status polling effect, against the  *)
(* POST /scan and GET /status routes.  The page starts one scan at a time  *)
(* (the button is disabled while loading or isScanning); the id the server *)
(* allocates for its request is the next unused one.                       *)
(***************************************************************************)
\* page.tsx lines 208-231: a non-empty path, the state before the fetch, and
\* the request sent; uuidv4 gives the request the next unused scan id
RunScan ==
    /\ ~isScanning
    /\ posted < MaxScans
    /\ isScanning' = TRUE
    /\ scanStatus' = None
    /\ posted' = posted + 1
    /\ UNCHANGED <<currentScanId, statusRequests, editorVars, scanVars, storeVars, pathVars,
                   calcVars>>

\* the scan id of the page's last request
DashScan == posted

\* the route handling the page's request: one step of POST /scan
ServeStep ==
    /\ DashScan # NoScanId
    /\ LET s == DashScan
       IN  \/ PostStart(s)
           \/ InitStatus(s)
           \/ StaticStatus(s)
           \/ StaticExec(s)
           \/ StaticRead(s)
           \/ AIStatus(s)
           \/ AIExec(s)
           \/ AIRead(s)
           \/ ProcessStatus(s)
           \/ HistoryRead(s)
           \/ HistoryWrite(s)
           \/ CacheWrite(s)
           \/ CompletedStatus(s)
           \/ Respond(s)
           \/ CatchStatus(s)
           \/ RespondError(s)
           \/ StatusFlush(s)

\* page.tsx lines 232-246: the response of POST /scan arrives
ReceiveResponse ==
    /\ isScanning /\ currentScanId = NoScanId
    /\ DashScan # NoScanId
    /\ response[DashScan] # None
    /\ IF response[DashScan].error # <<>>
       THEN /\ isScanning' = FALSE
            /\ UNCHANGED currentScanId
       ELSE /\ currentScanId' = response[DashScan].body.id
            /\ UNCHANGED isScanning
    /\ UNCHANGED <<scanStatus, statusRequests, posted, editorVars, scanVars, storeVars, pathVars,
                   calcVars>>

\* Mutant of PollTick: a terminal status does not end the polling
PollTick_NeverStops ==
    /\ currentScanId # NoScanId /\ isScanning
    /\ statusRequests' = 1 - statusRequests
    /\ scanStatus' = GetStatus(currentScanId)
    /\ UNCHANGED <<isScanning, currentScanId, posted, editorVars, scanVars, storeVars,
                   pathVars, calcVars>>

\* page.tsx lines 148-173: the interval exists while currentScanId and
\* isScanning are set; one tick requests the status and applies it (the state
\* update re-runs the effect, whose cleanup clears the interval)
PollTick ==
    /\ currentScanId # NoScanId /\ isScanning
    /\ statusRequests' = 1 - statusRequests
    /\ LET status == GetStatus(currentScanId)
       IN  /\ scanStatus' = status
           /\ IF status.status = "completed" \/ status.status = "failed"
              THEN /\ isScanning' = FALSE
                   /\ currentScanId' = NoScanId
              ELSE UNCHANGED <<isScanning, currentScanId>>
    /\ UNCHANGED <<posted, editorVars, scanVars, storeVars, pathVars, calcVars>>

NextDashboard ==
    \/ RunScan
    \/ ServeStep
    \/ ReceiveResponse
    \/ PollTick

\* The handler runs to its response (the subprocesses are bounded by their
\* timeouts), the fetch resolves, and the interval fires every 2000 ms
SpecDashboard ==
    /\ Init
    /\ [][NextDashboard]_vars
    /\ WF_vars(ServeStep)
    /\ WF_vars(ReceiveResponse)
    /\ WF_vars(PollTick)

(***************************************************************************)
(* The editor extension: runScanCommand starts the spoon-audit CLI for a   *)
(* file and publishes the findings of last_report.json as diagnostics.     *)
(* Every file lies in the one workspace folder, so every run has the same  *)
(* cwd and the same last_report.json.                                      *)
(***************************************************************************)
\* a location with no ":line" part (parseInt gives NaN)
NoLine == 0

\* what the CLI writes for file f: the tools' finding at line f, one finding
\* that names no line, and the AI finding unless --no-ai was given
EditorDoc(f, includeAI) ==
    [state |-> "doc",
     static |-> <<Finding(ToolSeverity(f), NoConfidence, f), Finding("low", NoConfidence, NoLine)>>,
     ai |-> IF includeAI THEN AIDoc(f).ai ELSE <<>>]

\* part_001 lines 297-312 (the severities here are lower case already)
DiagnosticSeverity(severity) ==
    CASE severity \in {"critical", "high"} -> "Error"
      [] severity = "medium" -> "Warning"
      [] severity \in {"low", "info"} -> "Information"
      [] OTHER -> "Warning"

LineNum(finding) == finding.location - 1

\* part_001 lines 284-318: the diagnostics of the findings that name a line
createDiagnostics(findings) ==
    LET located == SelectSeq(findings, LAMBDA finding : LineNum(finding) >= 0)
    IN  [i \in 1..Len(located) |->
            [line |-> LineNum(located[i]), severity |-> DiagnosticSeverity(located[i].severity)]]

NoDiagnostics == [g \in Files |-> <<>>]

\* part_001 lines 209-219: the commands and the save hook start the CLI
runScanCommand(f, includeAI) ==
    /\ cliRun[f].state = "none"
    /\ cliRun' = [cliRun EXCEPT ![f] = [state |-> "running", includeAI |-> includeAI]]
    /\ UNCHANGED <<diagnosticCollection, dashVars, scanVars, storeVars, pathVars, calcVars>>

\* the CLI process of file f ends: with an error, or after writing its report,
\* a report cut short, or none
CliExit(f) ==
    /\ cliRun[f].state = "running"
    /\ \/ /\ cliRun' = [cliRun EXCEPT ![f].state = "err"]
          /\ UNCHANGED artifact
       \/ /\ cliRun' = [cliRun EXCEPT ![f].state = "ok"]
          /\ \/ artifact' = EditorDoc(f, cliRun[f].includeAI)
             \/ artifact' = MalformedDoc
             \/ UNCHANGED artifact
    /\ UNCHANGED <<diagnosticCollection, dashVars, scanVars, statusStore, writing, cache,
                   historyFile, appendSeq, faults, pathVars, calcVars>>

\* part_001 lines 219-269: the callback of exec
ExecCallback(f) ==
    /\ cliRun[f].state \in {"ok", "err"}
    /\ cliRun' = [cliRun EXCEPT ![f] = NoRun]
    /\ diagnosticCollection' =
          IF cliRun[f].state = "ok" /\ artifact.state = "doc"
          THEN [NoDiagnostics EXCEPT ![f] = createDiagnostics(artifact.static)
                                               \o createDiagnostics(artifact.ai)]
          ELSE NoDiagnostics
    /\ UNCHANGED <<dashVars, scanVars, storeVars, pathVars, calcVars>>

\* the spoon-audit.clearDiagnostics command
ClearDiagnostics ==
    /\ diagnosticCollection # NoDiagnostics
    /\ diagnosticCollection' = NoDiagnostics
    /\ UNCHANGED <<cliRun, dashVars, scanVars, storeVars, pathVars, calcVars>>

NextEditor ==
    \/ \E f \in Files : \E includeAI \in BOOLEAN : runScanCommand(f, includeAI)
    \/ \E f \in Files : CliExit(f)
    \/ \E f \in Files : ExecCallback(f)
    \/ ClearDiagnostics

SpecEditor == Init /\ [][NextEditor]_vars

(***************************************************************************)
(* Properties                                                              *)
(***************************************************************************)
ResponseStatus(s) == IF response[s] = None THEN 0 ELSE response[s].status

LedgerIds == LET list == ListHistory IN {list[i].id : i \in 1..Len(list)}

Contains(message, part) == \E i \in 1..Len(message) : message[i] = part

\* the handler caught an error thrown by executeScanPipeline
PipelineError(s) == err[s] # <<>> /\ err[s][1] = "Pipeline execution failed: "

\* the catch block has written (or tried to write) the failed record and the
\* error response is about to be, or has been, returned
ErrorReturned(s) == (pc[s] = "respond_error" /\ StatusSettled(s)) \/ ResponseStatus(s) = 500

\* C1: once the status record of a scan id holds a terminal status (completed
\* or failed), no later step writes that record again: it never changes, so a
\* failed never follows a completed (or the reverse) and no running follows a
\* terminal status.
C1_TerminalIsFinal ==
    [][\A s \in Scans :
          GetStatus(s).status \in TerminalStatuses => statusStore'[s] = statusStore[s]]_vars

\* C1 witness: a handler has returned after a run of several status writes that
\* ended in a terminal record, while the other requests are still being served.
C1_Witness ==
    \E s \in Scans :
        /\ pc[s] = "done"
        /\ GetStatus(s).status \in TerminalStatuses
        /\ \E t \in Scans : t # s /\ pc[t] \notin {"idle", "done"}

\* C2 (as claimed): whenever the pipeline threw after a status record was
\* created, the record holds failed with the error message from the moment the
\* catch block has finished its write, so also when the 500 response is returned.
C2_FailedBeforeErrorResponse ==
    \A s \in Scans :
        ErrorReturned(s) /\ PipelineError(s) /\ statusStore[s] # None
            => GetStatus(s).status = "failed" /\ GetStatus(s).message = err[s]

\* C2 (amended): whenever the pipeline threw after a status record was created,
\* the catch block attempts the failed write before the error response: the
\* record holds failed with the error message, unless a status-store write
\* failed (updateScanStatus swallows that error), and then the file is left as
\* the failed write left it: the running record, or a file without a document.
C2_FailedUnlessWriteFails ==
    \A s \in Scans :
        ErrorReturned(s) /\ PipelineError(s) /\ statusStore[s] # None
            => \/ GetStatus(s).status = "failed" /\ GetStatus(s).message = err[s]
               \/ faults > 0 /\ GetStatus(s).status \in {"running", "not_found"}

\* C2 witness: a 500 response has been returned for a pipeline failure and the
\* record holds failed with the message.
C2_Witness ==
    \E s \in Scans :
        /\ ResponseStatus(s) = 500
        /\ PipelineError(s)
        /\ statusStore[s] = StatusRecord(s, "failed", err[s])

\* C3: whenever a status read returns completed for a scan id, the report of
\* that id can be read from the cache (stated for runs in which no filesystem
\* operation fails).
C3_CompletedImpliesCached ==
    \A s \in Scans :
        faults = 0 /\ GetStatus(s).status = "completed" => GetReportById(s) # None

\* C4: when no append is in progress and the ledger holds fewer than 100
\* entries, the entry of every scan whose ledger write succeeded is in the
\* ledger (stated for runs in which no filesystem operation fails).
C4_NoLostUpdate ==
    (/\ faults = 0
     /\ \A s \in Scans : fin[s].hist \in {"idle", "done"}
     /\ Len(ListHistory) < MaxHistory)
        => \A s \in Scans : appendSeq[s] > 0 => s \in LedgerIds

\* C5: the ledger never holds more than 100 entries and, started empty, holds
\* the entry of every scan appended so far while no more than 100 were appended
\* (stated for runs in which no filesystem operation fails).
C5_RetainsMostRecent ==
    /\ Len(ListHistory) <= MaxHistory
    /\ (faults = 0 /\ Cardinality({s \in Scans : appendSeq[s] > 0}) <= MaxHistory)
          => LedgerIds = {s \in Scans : appendSeq[s] > 0}

\* the position of an entry in append order: the entries of earlier scans
\* (ids -1, -2, ...) were appended before every entry of this run, -1 last
AppendRank(id) == IF id < 0 THEN id ELSE appendSeq[id]

\* C6: the list GET /history returns is newest-first, every entry standing
\* before the entries appended earlier than it, and since an entry's place in
\* append order never changes, neither does the relative order of two entries.
NewestFirst ==
    LET list == ListHistory
    IN  \A i \in 1..(Len(list) - 1) : AppendRank(list[i].id) > AppendRank(list[i + 1].id)

C6_NewestFirst ==
    /\ []NewestFirst
    /\ [][\A s \in Scans : appendSeq[s] > 0 => appendSeq'[s] = appendSeq[s]]_vars

\* C6 witness: two scans of this run have appended to a ledger that was one
\* entry below the cap, so the list is full and its tail has been cut.
C6_Witness ==
    /\ Len(ListHistory) = MaxHistory
    /\ Len(historyFile.entries) >= 2
    /\ historyFile.prior < MaxHistory - 1

\* the static subprocess of scan s was killed at the timeout or exited non-zero
StaticExecFailed(s) == exec[s] \in {"timeout", "nonzero"}

\* C7 (as claimed): when the static subprocess timed out or exited non-zero and
\* the handler has returned, the status record is failed with a message that
\* contains the reason, the response is a 500, and the ledger has no entry for
\* the scan id.
C7_StaticFailureFailsScan ==
    \A s \in Scans :
        pc[s] = "done" /\ StaticExecFailed(s)
            => /\ GetStatus(s).status = "failed"
               /\ Contains(GetStatus(s).message, ExecError(exec[s]))
               /\ ResponseStatus(s) = 500
               /\ s \notin LedgerIds

\* C7 (amended): when the static subprocess timed out or exited non-zero and the
\* handler has returned, the response is a 500 whose error contains the reason,
\* the ledger has no entry for the scan id, and the status record is failed
\* with a message that contains the reason, unless a status-store write failed:
\* then the record keeps what it held (running, or nothing).
C7_StaticFailureUnlessWriteFails ==
    \A s \in Scans :
        pc[s] = "done" /\ StaticExecFailed(s)
            => /\ \/ /\ GetStatus(s).status = "failed"
                     /\ Contains(GetStatus(s).message, ExecError(exec[s]))
                  \/ faults > 0 /\ GetStatus(s).status \in {"running", "not_found"}
               /\ ResponseStatus(s) = 500
               /\ Contains(response[s].error, ExecError(exec[s]))
               /\ s \notin LedgerIds
               /\ appendSeq[s] = 0

\* C7 witness: a scan whose static subprocess timed out has returned its 500
\* and its status record is failed with the reason.
C7_Witness ==
    \E s \in Scans :
        /\ pc[s] = "done"
        /\ exec[s] = "timeout"
        /\ GetStatus(s).status = "failed"
        /\ Contains(GetStatus(s).message, ExecError("timeout"))

\* C8: when the AI subprocess times out or exits non-zero, or exits zero having
\* written a malformed document, the AI pass hands an empty finding list to the
\* report (stated for runs in which no filesystem operation fails).
C8_AIFailureYieldsEmpty ==
    [][\A s \in Scans :
          /\ faults' = 0
          /\ \/ pc[s] = "ai_exec" /\ pc'[s] = "proc_status"
             \/ pc[s] = "ai_read" /\ exec[s] = "garbled" /\ pc'[s] = "proc_status"
          => report'[s].ai = <<>>]_vars

\* C9: the Path Resolver accepts a raw path only if its resolved form is the
\* trusted root or lies below it.
C9_AcceptsOnlyWithinRoot ==
    pathOut # None /\ pathOut.isValid => IsWithinRoot(pathOut.path)

InvalidRequestPaths == RequestPaths \ {ValidRequestPath}

\* C10: a request with a missing or empty contractPath, a path outside the
\* root, a file of another type, a directory without contracts or a path that
\* does not exist is answered with a 400; the step that answers 400 changes no
\* store, and no status record, cached report or ledger entry ever exists for
\* the id of a request answered with 400.
C10_RejectionHasNoEffect ==
    /\ [](\A s \in Scans :
             ResponseStatus(s) = 400
                => /\ statusStore[s] = None
                   /\ cache[s] = None
                   /\ appendSeq[s] = 0
                   /\ s \notin LedgerIds)
    /\ [][\A s \in Scans :
             /\ (pc[s] = "idle" /\ req'[s] # None /\ req'[s].contractPath \in InvalidRequestPaths)
                   => ResponseStatus(s)' = 400
             /\ (ResponseStatus(s) # 400 /\ ResponseStatus(s)' = 400)
                   => UNCHANGED <<statusStore, cache, historyFile>>]_vars

\* C10 witness: a request has been rejected for its path while another scan
\* has already filled the three stores.
C10_Witness ==
    \E s, t \in Scans :
        /\ ResponseStatus(s) = 400
        /\ response[s].code = "INVALID_PATH"
        /\ GetStatus(t).status = "completed"
        /\ cache[t] # None
        /\ t \in LedgerIds

\* C11: once a status read for a scan id has returned a record, no later read
\* returns not_found, also while a further write of that record is under way
\* (stated for runs in which no filesystem operation fails).
C11_NeverNotFoundAgain ==
    [][\A s \in Scans :
          faults' = 0 /\ GetStatus(s).status # "not_found"
              => GetStatus(s)'.status # "not_found"]_vars

\* the handler of scan s got past validation and has returned
FinishedPastValidation(s) ==
    pc[s] = "done" /\ req[s] # None /\ ResponseStatus(s) # 400

\* C12 (as claimed): once the handler of a scan that got past validation has
\* returned, a status read returns completed or failed.
C12_TerminalAfterHandler ==
    \A s \in Scans :
        FinishedPastValidation(s) => GetStatus(s).status \in TerminalStatuses

\* C12 (amended): once the handler of a scan that got past validation has
\* returned, a status read returns completed or failed, unless a status-store
\* write failed: the error is swallowed and the read returns what the failed
\* write left, the running record or not_found.
C12_TerminalUnlessWriteFails ==
    \A s \in Scans :
        FinishedPastValidation(s)
            => \/ /\ ResponseStatus(s) = 200
                  /\ statusStore[s] = StatusRecord(s, "completed", <<"Scan completed successfully">>)
               \/ /\ ResponseStatus(s) = 500
                  /\ statusStore[s] = StatusRecord(s, "failed", err[s])
               \/ faults > 0 /\ GetStatus(s).status \in {"running", "not_found"}

\* C12 witness: a scan has been answered with its report and its record is completed.
C12_Witness ==
    \E s \in Scans :
        /\ FinishedPastValidation(s)
        /\ ResponseStatus(s) = 200
        /\ GetStatus(s).status = "completed"

\* The pipeline stage a status record stands for
StageOf(rec) ==
    IF rec = None \/ rec = Truncated THEN 0
    ELSE CASE rec.status \in TerminalStatuses -> 5
           [] rec.message = <<"Initializing scan pipeline...">> -> 1
           [] rec.message = <<"Running static analysis...">> -> 2
           [] rec.message = <<"Running AI analysis...">> -> 3
           [] rec.message = <<"Processing results...">> -> 4
           [] OTHER -> 0

\* The stages that may follow stage k for scan s; the terminal record may follow
\* any stage
NextStages(s, k) ==
    {5} \cup CASE k = 0 -> {1}
               [] k = 1 -> {2}
               [] k = 2 -> IF req[s] # None /\ req[s].includeAI THEN {3} ELSE {4}
               [] k = 3 -> {4}
               [] OTHER -> {}

\* Where the handler stands when it issues the write of a stage
StagePcs(rec) ==
    CASE rec.status = "completed" -> {"finalize"}
      [] rec.status = "failed" -> {"catch"}
      [] StageOf(rec) = 1 -> {"init"}
      [] StageOf(rec) = 2 -> {"static_status"}
      [] StageOf(rec) = 3 -> {"ai_status"}
      [] StageOf(rec) = 4 -> {"proc_status"}
      [] OTHER -> {}

\* scan s starts a status write in this step
StatusWriteStarts(s) == writing[s] = None /\ writing'[s] # None

\* C13 (as claimed): every status write of a scan carries the stage that
\* follows the stage of the record in the file (Initializing, static analysis,
\* AI analysis exactly when includeAI is set, Processing results, terminal; the
\* terminal record may come early), and is issued when the handler has
\* finished the stage before.
C13_StagesInSequence ==
    [][\A s \in Scans :
          StatusWriteStarts(s) /\ statusStore[s] # Truncated
              => /\ StageOf(writing'[s]) \in NextStages(s, StageOf(statusStore[s]))
                 /\ pc[s] \in StagePcs(writing'[s])]_vars

\* C13 (amended): every status write of a scan carries a later stage than the
\* record in the file and is issued when the handler has finished the stage
\* before; it carries the very next stage unless a status write failed, whose
\* record is then missing from the sequence.
C13_StagesInOrder ==
    [][\A s \in Scans :
          StatusWriteStarts(s) /\ statusStore[s] # Truncated
              => /\ StageOf(writing'[s]) > StageOf(statusStore[s])
                 /\ \/ StageOf(writing'[s]) \in NextStages(s, StageOf(statusStore[s]))
                    \/ faults > 0
                 /\ pc[s] \in StagePcs(writing'[s])]_vars

\* C13 witness: a scan with the AI pass has gone through all five stages; the
\* completed record is being written over the Processing record's file.
C13_Witness ==
    \E s \in Scans :
        /\ faults = 0
        /\ req[s] # None /\ req[s].includeAI
        /\ writing[s] # None
        /\ writing[s].status = "completed"
        /\ report[s].ai # <<>>

\* C14: a scan whose pipeline returned its report is answered with status 200
\* and that report, all three store writes having been attempted, whichever of
\* them failed: while the three writes are under way the handler stays at
\* Promise.all or returns the report, and a write that fails leaves the other
\* two as they were.
C14_WriteFailureSwallowed ==
    /\ [](\A s \in Scans :
             ResponseStatus(s) = 200
                => /\ response[s].body = ToJson(report[s])
                   /\ fin[s].hist = "done" /\ fin[s].cache = "done" /\ fin[s].stat = "done")
    /\ [][\A s \in Scans :
             pc[s] = "finalize"
                => /\ \/ pc'[s] = "finalize"
                      \/ pc'[s] = "done" /\ ResponseStatus(s)' = 200
                   /\ faults' > faults
                         => Cardinality({k \in {"hist", "cache", "stat"} :
                                            fin'[s][k] # fin[s][k]}) <= 1]_vars

\* C14 witness: the cache write of a scan failed, the scan is in the ledger, its
\* record is completed and the caller has the report.
C14_Witness ==
    \E s \in Scans :
        /\ ResponseStatus(s) = 200
        /\ faults > 0
        /\ cache[s] = None
        /\ s \in LedgerIds
        /\ GetStatus(s).status = "completed"

\* C15: a scan that got past validation and whose handler has returned with a
\* terminal status record has
\* exactly one ledger entry, and the entry's status is the record's status
\* (stated for runs in which no filesystem operation fails, while the ledger
\* is below its cap and no append is under way).
C15_OneEntryPerTerminalScan ==
    (/\ faults = 0
     /\ \A s \in Scans : fin[s].hist \in {"idle", "done"}
     /\ Len(ListHistory) < MaxHistory)
        => \A s \in Scans :
              FinishedPastValidation(s) /\ GetStatus(s).status \in TerminalStatuses
                  => /\ Cardinality({i \in 1..Len(ListHistory) : ListHistory[i].id = s}) = 1
                     /\ \A i \in 1..Len(ListHistory) :
                           ListHistory[i].id = s => ListHistory[i].status = GetStatus(s).status

\* C16: no step deletes or changes a report that is in the cache, so a report
\* stays readable by id when its ledger entry has been cut from the list.
C16_CacheOutlivesLedger ==
    [][\A id \in CacheIds : cache[id] # None => cache'[id] = cache[id]]_vars

\* C16 witness: the ledger is full, the oldest of the earlier scans has been
\* cut from it, and its report is still read from the cache.
C16_Witness ==
    /\ Len(historyFile.entries) >= 2
    /\ historyFile.prior < MaxHistory - 1
    /\ OldestId \notin LedgerIds
    /\ GetReportById(OldestId) = OldReport(-OldestId)

\* C17: a report read from the cache by id is the document POST /scan returned
\* for that id, with the final duration and risk_score, and before the handler
\* returns it is the report the handler is about to return.
C17_CacheRoundTrip ==
    \A s \in Scans :
        GetReportById(s) # None
            => /\ GetReportById(s) = ToJson(report[s])
               /\ GetReportById(s).duration = Elapsed(report[s])
               /\ GetReportById(s).metadata.risk_score = calculateRiskScore(report[s])
               /\ ResponseStatus(s) = 200 => GetReportById(s) = response[s].body

\* C17 witness: a scan with findings has been answered and its report, with a
\* positive duration and risk score, is in the cache.
C17_Witness ==
    \E s \in Scans :
        /\ ResponseStatus(s) = 200
        /\ GetReportById(s) # None
        /\ response[s].body.duration > 0
        /\ response[s].body.metadata.risk_score > 0

\* C18: GET /report answers null while no scan has returned a report, and
\* otherwise the report POST /scan returned for a finalized scan (stated for
\* runs in which no filesystem operation fails).
C18_LatestIsFinalizedReport ==
    faults = 0
        => LET finalized == {s \in Scans : ResponseStatus(s) = 200}
           IN  IF finalized = {} THEN GetLatestReport = None
               ELSE \E s \in finalized : GetLatestReport = response[s].body

\* C19: every finding in the static and ai lists of a scan's report was written
\* by an analyzer invocation of that scan (stated for runs in which no
\* filesystem operation fails).
C19_OwnArtifactOnly ==
    \A s \in Scans :
        faults = 0 /\ report[s] # None
            => LET found == report[s].static \o report[s].ai
               IN  \A i \in 1..Len(found) : found[i].location = s

\* C20: the first status record written for a scan id has status running
\* (stated for runs in which no filesystem operation fails).
C20_FirstRecordIsRunning ==
    [][\A s \in Scans :
          faults' = 0 /\ statusStore[s] = None /\ StatusWriteStarts(s)
              => writing'[s].status = "running"]_vars

\* C21: the risk score of every report, whatever the severities of its findings
\* and with every confidence absent or within [0, 1], is an integer from 0 to 100.
C21_ScoreInRange ==
    calcOut # None => calcOut.score \in 0..ScoreCap

\* C21 witness: a report whose contributions sum to more than 100 has been
\* scored, and the score is 100.
C21_Witness ==
    /\ calcOut # None
    /\ ScoreTenths(calcIn.static \o calcIn.ai, 1) > 10 * ScoreCap
    /\ calcOut.score = ScoreCap

\* C22: raising the severity of one finding along info, low, medium, high,
\* critical, everything else unchanged, never lowers the risk score.
C22_MonotoneInSeverity ==
    calcOut # None /\ calcOut.raised => calcOut.score >= calcOut.prev

\* C22 witness: a severity has been raised and the score has grown.
C22_Witness ==
    calcOut # None /\ calcOut.raised /\ calcOut.score > calcOut.prev

\* the contribution of a finding as specified: the default confidence only
\* when confidence is absent
SpecifiedContribution(f) ==
    Weight(f.severity) * (IF f.confidence = NoConfidence THEN DefaultConfidence ELSE f.confidence)

RECURSIVE SpecifiedTenths(_, _)
SpecifiedTenths(findings, i) ==
    IF i > Len(findings) THEN 0
    ELSE SpecifiedContribution(findings[i]) + SpecifiedTenths(findings, i + 1)

\* C23: for findings with one of the five severities, the risk score is
\* min(100, round(sum of weight x confidence)), the confidence being 0.8 only
\* when the finding has none.
C23_ScoreFormula ==
    LET all == IF calcOut = None THEN <<>> ELSE calcIn.static \o calcIn.ai
    IN  (calcOut # None /\ \A i \in 1..Len(all) : all[i].severity \in CanonicalSeverities)
            => calcOut.score = Min((SpecifiedTenths(all, 1) + 5) \div 10, ScoreCap)

\* the findings of a report document
FindingsOf(doc) == doc.static \o doc.ai

\* C24: every finding of a report that POST /scan returned or that is in the
\* cache has one of the five severities (stated for runs in which no
\* filesystem operation fails).
C24_SeveritiesCanonical ==
    \A s \in Scans :
        faults = 0
            => /\ cache[s] # None
                    => \A i \in 1..Len(FindingsOf(cache[s])) :
                          FindingsOf(cache[s])[i].severity \in CanonicalSeverities
               /\ ResponseStatus(s) = 200
                    => \A i \in 1..Len(FindingsOf(response[s].body)) :
                          FindingsOf(response[s].body)[i].severity \in CanonicalSeverities

\* C25: every report that POST /scan returned or that is in the cache has
\* metadata.total_findings equal to the length of static plus the length of ai.
C25_TotalFindingsRecomputed ==
    \A s \in Scans :
        /\ cache[s] # None
              => cache[s].metadata.total_findings = Len(cache[s].static) + Len(cache[s].ai)
        /\ ResponseStatus(s) = 200
              => response[s].body.metadata.total_findings =
                     Len(response[s].body.static) + Len(response[s].body.ai)

\* C25 witness: a report with a static and an ai finding has been returned and
\* cached with total_findings 2.
C25_Witness ==
    \E s \in Scans :
        /\ ResponseStatus(s) = 200
        /\ cache[s] # None
        /\ cache[s].static # <<>> /\ cache[s].ai # <<>>
        /\ response[s].body.metadata.total_findings = 2

\* the static subprocess of scan s exited zero and reading or parsing the
\* artifact failed
StaticParseFailed(s) == PipelineError(s) /\ exec[s] = "none"

\* C26: the error code returned for a static pass whose artifact could not be
\* read or parsed differs from the code returned for a static pass whose
\* subprocess timed out or exited non-zero.
C26_ParseFailureDistinct ==
    \A s, t \in Scans :
        (/\ pc[s] = "done" /\ StaticParseFailed(s)
         /\ pc[t] = "done" /\ StaticExecFailed(t))
            => response[s].code # response[t].code

(***************************************************************************)
(* Analytics                                                               *)
(***************************************************************************)
\* the request has been answered from a ledger that was read and parsed
Answered == calcOut # None /\ calcIn.ledger = "list"

\* C27: analytics on an absent or empty ledger return a snapshot, never an
\* error, whose totalScans, totalFindings and averageRiskScore are 0 and whose
\* severityDistribution, scanTrends and topVulnerabilities are empty.
C27_EmptyLedgerZeroSnapshot ==
    (calcOut # None /\ (calcIn.ledger = "absent" \/ (calcIn.ledger = "list" /\ HistoryOf(calcIn) = <<>>)))
        => /\ calcOut.error = FALSE
           /\ calcOut.totalScans = 0
           /\ calcOut.totalFindings = 0
           /\ calcOut.averageRiskScore = 0
           /\ calcOut.severityDistribution = <<>>
           /\ calcOut.scanTrends = <<>>
           /\ calcOut.topVulnerabilities = <<>>

C27_Witness ==
    /\ Answered
    /\ HistoryOf(calcIn) = <<>>
    /\ calcOut.totalScans = 0
    /\ calcOut.scanTrends = <<>>

\* the UTC day, counted from the epoch, in which an entry was started
DayOfEntry(entry) == entry.timestamp \div SecondsPerDay
LedgerDays(history) == {DayOfEntry(history[i]) : i \in 1..Len(history)}
LatestDays(days) == {d \in days : Cardinality({e \in days : e > d}) < TrendCap}
EntriesOfDay(history, d) == {i \in 1..Len(history) : DayOfEntry(history[i]) = d}
CalendarBefore(a, b) ==
    \/ a[1] < b[1]
    \/ a[1] = b[1] /\ a[2] < b[2]
    \/ a[1] = b[1] /\ a[2] = b[2] /\ a[3] < b[3]

\* C28: scanTrends has one bucket per UTC calendar day of the ledger, the
\* 30 latest days when there are more, in strictly ascending order of date;
\* the scans of a bucket is the number of entries of its day, findings the
\* sum of their findings_count, avgRiskScore the rounded mean of their
\* risk_score.
C28_TrendBuckets ==
    Answered =>
        LET history == HistoryOf(calcIn)
            trends == calcOut.scanTrends
            kept == LatestDays(LedgerDays(history))
        IN  /\ Len(trends) = Cardinality(kept)
            /\ Len(trends) <= TrendCap
            /\ \A i \in 1..(Len(trends) - 1) : CalendarBefore(trends[i].date, trends[i + 1].date)
            /\ \A d \in kept :
                 \E i \in 1..Len(trends) :
                    LET of == EntriesOfDay(history, d)
                    IN  /\ trends[i].date = DateOf(d * SecondsPerDay)
                        /\ trends[i].scans = Cardinality(of)
                        /\ trends[i].findings =
                             SumSeq([n \in 1..Len(history) |->
                                       IF n \in of THEN history[n].findings_count ELSE 0])
                        /\ trends[i].avgRiskScore =
                             RoundedMean(SumSeq([n \in 1..Len(history) |->
                                                   IF n \in of THEN history[n].risk_score ELSE 0]),
                                         Cardinality(of))

C28_Witness ==
    /\ Answered
    /\ Cardinality(LedgerDays(HistoryOf(calcIn))) > TrendCap
    /\ Len(calcOut.scanTrends) = TrendCap
    /\ \E i \in 1..Len(calcOut.scanTrends) :
          calcOut.scanTrends[i].scans = 3 /\ calcOut.scanTrends[i].avgRiskScore = 5

\* the findings of the readable reports among the first DetailWindow entries
WindowFindings(docs) ==
    LET window == FirstN(docs, DetailWindow)
        readable == {i \in 1..Len(window) : window[i] \notin {Missing, Unreadable}}
    IN  UNION {{<<i, j>> : j \in 1..Len(window[i].static \o window[i].ai)} : i \in readable}
FindingAt(docs, at) == (docs[at[1]].static \o docs[at[1]].ai)[at[2]]

\* C29: severityDistribution and topVulnerabilities count exactly the
\* findings of the readable cached reports of the 50 most recent ledger
\* entries; missing and unreadable reports are skipped and the snapshot is
\* still returned.
C29_DetailFromReadableWindow ==
    Answered =>
        LET docs == DocsOf(calcIn)
            found == WindowFindings(docs)
        IN  /\ calcOut.error = FALSE
            /\ \A sev \in {FindingAt(docs, at).severity : at \in found} :
                 \E i \in 1..Len(calcOut.severityDistribution) :
                    /\ calcOut.severityDistribution[i].key = sev
                    /\ calcOut.severityDistribution[i].count =
                         Cardinality({at \in found : FindingAt(docs, at).severity = sev})
            /\ \A i \in 1..Len(calcOut.severityDistribution) :
                 \E at \in found :
                    FindingAt(docs, at).severity = calcOut.severityDistribution[i].key
            /\ \A i \in 1..Len(calcOut.topVulnerabilities) :
                 calcOut.topVulnerabilities[i].count =
                    Cardinality({at \in found :
                        /\ HasTitle(FindingAt(docs, at))
                        /\ TitleCase(ClusterKey(FindingAt(docs, at).title))
                             = calcOut.topVulnerabilities[i].title})

RECURSIVE WordsFrom(_, _, _, _)
\* the alphanumeric words of a title, in lower case
WordsFrom(title, i, word, words) ==
    IF i > Len(title) THEN (IF word = <<>> THEN words ELSE Append(words, word))
    ELSE IF ToLower(title[i]) \in LowerAlnum
         THEN WordsFrom(title, i + 1, Append(word, ToLower(title[i])), words)
         ELSE WordsFrom(title, i + 1, <<>>, IF word = <<>> THEN words ELSE Append(words, word))
Words(title) == WordsFrom(title, 1, <<>>, <<>>)

\* C30: two titles made of the same alphanumeric words, whatever the letter
\* case and the kind or number of the characters between the words, are
\* counted in the same cluster.
C30_SameWordsSameCluster ==
    (calcOut # None /\ Words(calcIn.first) = Words(calcIn.second))
        => Len(calcOut.vulnerabilities) = 1

\* the clusters accumulated over the window of an input, in insertion order
ClustersOf(in) ==
    LET window == FirstN(DocsOf(in), DetailWindow)
    IN  TallyScans(window, 1, Len(window), NoTallies).vulnerabilities
Listed(top, cluster) == \E i \in 1..Len(top) : top[i].title = TitleCase(cluster.key)

\* C31: topVulnerabilities lists at most 10 clusters in non-increasing order
\* of count, each with the count accumulated for it, and no cluster left out
\* of the list has a larger count than a listed one.
C31_TopClusters ==
    Answered =>
        LET top == calcOut.topVulnerabilities
            clusters == ClustersOf(calcIn)
        IN  /\ Len(top) <= TopCap
            /\ \A i \in 1..(Len(top) - 1) : top[i].count >= top[i + 1].count
            /\ \A i \in 1..Len(top) :
                 \E k \in 1..Len(clusters) :
                    top[i].title = TitleCase(clusters[k].key) /\ top[i].count = clusters[k].count
            /\ \A k \in 1..Len(clusters) :
                 ~Listed(top, clusters[k])
                    => /\ Len(top) = TopCap
                       /\ \A i \in 1..Len(top) : clusters[k].count <= top[i].count

\* C31 witness: more than 10 clusters were accumulated, the listed counts
\* differ, and one of the first 10 clusters accumulated is left out.
C31_Witness ==
    /\ Answered
    /\ Len(ClustersOf(calcIn)) > TopCap
    /\ Len(calcOut.topVulnerabilities) = TopCap
    /\ calcOut.topVulnerabilities[1].count > calcOut.topVulnerabilities[TopCap].count
    /\ \E k \in 1..TopCap : ~Listed(calcOut.topVulnerabilities, ClustersOf(calcIn)[k])

Occurrences(severities, sev) == Cardinality({k \in 1..Len(severities) : severities[k] = sev})
FirstSeen(severities, sev) ==
    CHOOSE k \in 1..Len(severities) :
        severities[k] = sev /\ \A j \in 1..(k - 1) : severities[j] # sev
\* sev is the most frequent of the severities, the first seen among the most
\* frequent ones
IsMode(severities, sev) ==
    /\ \E k \in 1..Len(severities) : severities[k] = sev
    /\ \A k \in 1..Len(severities) :
          \/ Occurrences(severities, severities[k]) < Occurrences(severities, sev)
          \/ /\ Occurrences(severities, severities[k]) = Occurrences(severities, sev)
             /\ FirstSeen(severities, sev) <= FirstSeen(severities, severities[k])

\* C32: the avgSeverity of every listed cluster is the mode of the severities
\* observed in the cluster, the first encountered among the severities with
\* the highest count.
C32_ModeFirstSeen ==
    Answered =>
        LET top == calcOut.topVulnerabilities
            clusters == ClustersOf(calcIn)
        IN  \A i \in 1..Len(top) :
               \A k \in 1..Len(clusters) :
                  top[i].title = TitleCase(clusters[k].key)
                     => IsMode(clusters[k].severities, top[i].avgSeverity)

\* C32 witness: a listed cluster has two severities with the same highest
\* count and the second of its findings is not of the reported severity.
C32_Witness ==
    /\ Answered
    /\ \E i \in 1..Len(calcOut.topVulnerabilities) :
          \E k \in 1..Len(ClustersOf(calcIn)) :
             LET severities == ClustersOf(calcIn)[k].severities
                 sev == calcOut.topVulnerabilities[i].avgSeverity
             IN  /\ calcOut.topVulnerabilities[i].title = TitleCase(ClustersOf(calcIn)[k].key)
                 /\ IsMode(severities, sev)
                 /\ \E j \in 1..Len(severities) :
                       /\ severities[j] # sev
                       /\ Occurrences(severities, severities[j]) = Occurrences(severities, sev)

\* C36: the counts of severityDistribution and the counts of the clusters
\* accumulated over the same window have the same sum.
C36_TalliesAgree ==
    Answered =>
        LET clusters == ClustersOf(calcIn)
        IN  SumSeq([i \in 1..Len(calcOut.severityDistribution) |->
                      calcOut.severityDistribution[i].count])
              = SumSeq([k \in 1..Len(clusters) |-> clusters[k].count])

\* the ledger entry and the cached report describe the same scan alike
EntryAgrees(entry, cached) ==
    /\ entry.findings_count = cached.metadata.total_findings
    /\ entry.risk_score = cached.metadata.risk_score
    /\ entry.path = cached.path
    /\ entry.timestamp = cached.timestamp
    /\ entry.duration = cached.duration
    /\ entry.pipeline = cached.pipeline
    /\ entry.ai_enabled = cached.metadata.ai_enabled

\* C34: a ledger entry and the cached report with the same id agree on
\* findings_count / total_findings, risk_score, path, timestamp, duration,
\* pipeline and ai_enabled.
C34_EntryMatchesCache ==
    LET list == ListHistory
    IN  \A i \in 1..Len(list) :
           (list[i].id \in CacheIds /\ GetReportById(list[i].id) # None)
              => EntryAgrees(list[i], GetReportById(list[i].id))

\* C34 witness: a scan with a static and an ai finding has its entry in the
\* ledger and its report in the cache.
C34_Witness ==
    \E s \in Scans :
        /\ GetReportById(s) # None
        /\ GetReportById(s).ai # <<>>
        /\ \E i \in 1..Len(ListHistory) :
              ListHistory[i].id = s /\ ListHistory[i].findings_count = 2

\* C35: an append that could not read a ledger that holds entries does not
\* replace it by a list of the new entry alone.
C35_FailedReadKeepsEntries ==
    [][\A s \in Scans :
          (/\ fin[s].hist = "write"
           /\ fin'[s].hist # "write"
           /\ historyFile' # historyFile
           /\ LedgerList(histLocal[s]) = <<>>
           /\ historyFile.exists
           /\ Len(historyFile.entries) + historyFile.prior > 0)
              => Len(historyFile'.entries) + historyFile'.prior > 1]_vars

\* C33: GET /status/[id], GET /history/[id], GET /report, GET /history and
\* GET /analytics leave the status files, the cache and the ledger as they
\* were, also when the record asked for is absent or unreadable.
C33_QueriesLeaveStores ==
    [][/\ statusStore' = statusStore
       /\ writing' = writing
       /\ cache' = cache
       /\ historyFile' = historyFile]_vars

\* C33 witness: the status of a scan whose file is emptied was asked for and
\* answered not_found, and the file is still emptied.
C33_Witness ==
    /\ calcOut # None
    /\ calcOut.op = "status"
    /\ calcOut.body.status = "not_found"
    /\ statusStore[calcOut.id] = Truncated

\* the terminal status record of the page's scan never reached the store
StatusLost ==
    /\ DashScan # NoScanId
    /\ response[DashScan] # None
    /\ response[DashScan].error = <<>>
    /\ GetStatus(DashScan).status # "completed"

C38_OtherFilesKept ==
    [][\A f \in Files :
          (cliRun[f].state \in {"ok", "err"} /\ cliRun'[f].state = "none")
              => \A g \in Files \ {f} : diagnosticCollection'[g] = diagnosticCollection[g]]_vars

====
